---- MODULE Spec2Model ----
(***************************************************************************)
(* Carnet Digital - Universidad del Pacifico.                              *)
(*                                                                         *)
(* State machine of the loan ledger (js/loans.js, js/staffLoans.js), the   *)
(* student and staff tables behind js/api.js, the local session store      *)
(* (js/auth.js), and the student page's PDF download (student.js,          *)
(* js/card.js).  The database is the one created by the SQL script of the  *)
(* README: tables students, staff and loans with their defaults, CHECKs    *)
(* and the loans -> students foreign key (ON DELETE CASCADE).              *)
(*                                                                         *)
(* Time is a clock `now` counted in ticks, DayLen ticks to a day.          *)
(* Timestamps (ISO strings, epoch milliseconds) are instants of that       *)
(* clock; NullTs stands for SQL NULL / JavaScript null in a timestamp.     *)
(***************************************************************************)
EXTENDS Integers, Sequences, FiniteSets, TLC

VARIABLES
  students,     \* table students: code -> row
  staff,        \* table staff: id -> row
  loans,        \* table loans: id -> row
  nextLoanId,   \* supply of fresh loan ids (gen_random_uuid())
  now,          \* the clock (Date.now(), NOW())
  session,      \* localStorage['auth_session'] of each browser
  page,         \* the page each browser shows
  view,         \* loan ids rendered in #activeLoansContainer of each browser
  pwdLog,       \* history variable: password changes written, per principal
  loginAt,      \* history variable: per browser, the time of the last successful
                \* login not followed by a logout (NullTs when there is none)
  calls,        \* per browser, the gateway call that has made its read and not
                \* yet its write (a call awaiting the database)
  api,          \* js/api.js on one page: supabaseClient, initializationPromise, the
                \* polling of tryInit, and what each caller of init was handed
  lastOp        \* the last operation, its outcome (modal shown) and in arg, for a
                \* loan form, the category chosen, for a login refused as bad
                \* credentials, the identifier typed, for a return that was
                \* written, the status the update found

vars == <<students, staff, loans, nextLoanId, now, session, page, view, pwdLog, loginAt, calls, api, lastOp>>

----------------------------------------------------------------------------
(* Bounds of the model *)

MaxTime == 1
MaxLoans == 2
MaxPwdCalls == 12
MaxSelfChanges == 2
MaxCredTime == 1
MaxAccountWrites == 3
MaxSessionSlack == 2
MaxStatusTime == 5
MaxExpiryDay == 33
DayLen == 2
MaxPriorChanges == 9
MaxRaceWrites == 3
MaxEditWrites == 2

(* Program constants *)

HISTORY_LIMIT == 10
SESSION_DAYS == 7
EXPIRING_DAYS == 30
maxAttempts == 50

NullTs == -1
NoInput == -1

StaffBrowsers == {"b1", "b2"}
StudentBrowsers == {"b3"}
Browsers == StaffBrowsers \cup StudentBrowsers
Codes == {"1001", "1002"}
RawCodes == Codes \cup {"<1001>"}
SeedStaffEmail == "ana@udp.edu"
Passwords == {"pw1", "pw2"}
LIBRARY_ITEMS == {"Computador de escritorio", "Computador portatil", "Audifonos", "Libros", "Juegos de mesa"}
Categories == {"biblioteca", "laboratorio"}

----------------------------------------------------------------------------
(* Pure helpers *)

\* sanitize(text): String(text).replace(/[<>]/g, ''), tabulated on the inputs used
sanitize(text) ==
  CASE text = "<1001>" -> "1001"
    [] text = "<52001002>" -> "52001002"
    [] text = "<UPAC-1001>" -> "UPAC-1001"
    [] text = "<ana@udp.edu>" -> "ana@udp.edu"
    [] OTHER -> text

\* sha256(text): a deterministic, collision-free digest of the text
sha256(text) == <<"sha256", text>>

\* column default password_history JSONB DEFAULT '[]'::jsonb : a JSON array
DefaultHistory == [kind |-> "array", entries |-> <<>>]
\* a NULL password_history
NullHistory == [kind |-> "null", entries |-> <<>>]

\* JSON.stringify(history): the array as a JSON text
JSONstringify(entries) == [kind |-> "string", entries |-> entries]

\* existing.password_history ? JSON.parse(existing.password_history) : []
\* null is falsy; a string parses to the array it was made from; an array is
\* truthy and is coerced by JSON.parse to a string that is no JSON text
\* ([] becomes "", a non-empty array "[object Object]"): SyntaxError.
ParseThrows(h) == h.kind = "array"
ParseHistory(h) == IF h.kind = "string" THEN h.entries ELSE <<>>

\* history.slice(-n): the last n elements
SliceLast(s, n) == IF Len(s) > n THEN SubSeq(s, Len(s) - n + 1, Len(s)) ELSE s

\* faulty variant: truncation with slice(0, 10), which keeps the oldest entries
PushHistoryKeepFirst(h, entry) ==
  LET pushed == Append(ParseHistory(h), entry)
  IN IF Len(pushed) > HISTORY_LIMIT THEN SubSeq(pushed, 1, HISTORY_LIMIT) ELSE pushed

\* history.push(entry); if (history.length > 10) history = history.slice(-10)
PushHistory(h, entry) ==
  LET pushed == Append(ParseHistory(h), entry)
  IN IF Len(pushed) > HISTORY_LIMIT THEN SliceLast(pushed, HISTORY_LIMIT) ELSE pushed

----------------------------------------------------------------------------
(* Rows and queries of the gateway *)

Names == {"ANA", "LUIS"}
SeedLastname == "MINA"
SeedExpiry == "2030-12-31"

NoSession ==
  [role |-> "none", code |-> "", email |-> "", name |-> "", firstLogin |-> FALSE,
   ts |-> NullTs, expiresAt |-> NullTs]

LoginPage == [kind |-> "login", code |-> "", section |-> "none"]
StaffPage == [kind |-> "staff", code |-> "", section |-> "none"]

\* a students row as the SQL editor or an import leaves it: the password is the
\* cedula, first_login and active take their column defaults
SeedStudent(cedula, name, history) ==
  [cedula |-> cedula, name |-> name, lastname |-> SeedLastname, expiry |-> SeedExpiry,
   active |-> TRUE, first_login |-> TRUE, password_hash |-> sha256(cedula),
   password_history |-> history, created_at |-> 0, updated_at |-> 0]

\* the staff row that gives the first access to the staff panel
SeedStaff(history) ==
  [id |-> SeedStaffEmail, name |-> "Ana Staff", email |-> SeedStaffEmail,
   password_hash |-> sha256("pw1"), password_history |-> history,
   created_at |-> 0, updated_at |-> 0]

LoanIds == DOMAIN loans

\* the loans a query returns, ordered by borrowed_at descending: of the ids in
\* `ids`, those not yet listed with the latest borrowed_at come first
RECURSIVE OrderByBorrowedDesc(_)
OrderByBorrowedDesc(ids) ==
  IF ids = {} THEN <<>>
  ELSE LET top == CHOOSE i \in ids :
                    \A j \in ids : \/ loans[j].borrowed_at < loans[i].borrowed_at
                                   \/ (loans[j].borrowed_at = loans[i].borrowed_at /\ j >= i)
       IN <<top>> \o OrderByBorrowedDesc(ids \ {top})

\* LoansAPI.getActiveLoans(): .eq('status','active').order('borrowed_at', desc)
getActiveLoans == OrderByBorrowedDesc({i \in LoanIds : loans[i].status = "active"})

\* faulty variant: the query without .eq('status','active')
getStudentLoansAnyStatus(studentCode) ==
  OrderByBorrowedDesc({i \in LoanIds : loans[i].student_code = studentCode})

\* LoansAPI.getStudentActiveLoans(code):
\* .eq('student_code', code).eq('status','active').order('borrowed_at', desc)
getStudentActiveLoans(studentCode) ==
  OrderByBorrowedDesc({i \in LoanIds : /\ loans[i].student_code = studentCode
                                       /\ loans[i].status = "active"})

\* LoansAPI.getLoansHistory(filters): each filter applies only when it is truthy
\* (a non-empty string); "" stands for an absent filter
getLoansHistory(filters) ==
  OrderByBorrowedDesc({i \in LoanIds :
       /\ (filters.category # "" => loans[i].category = filters.category)
       /\ (filters.status # "" => loans[i].status = filters.status)
       /\ (filters.studentCode # "" => loans[i].student_code = filters.studentCode)})

NoFilters == [category |-> "", status |-> "", studentCode |-> ""]

\* the ids of a query result
Ids(result) == {result[k] : k \in 1..Len(result)}

\* LoansAPI.validateStudent(code): the row with that code, or PGRST116
validateStudent(studentCode) == studentCode \in DOMAIN students

\* faulty variant: the insert ignores loanData.borrowedAt
registerLoanRowNow(loanData, t) ==
  [student_code |-> loanData.studentCode,
   student_name |-> loanData.studentName,
   category |-> loanData.category,
   item_type |-> loanData.itemType,
   item_description |-> loanData.itemDescription,
   staff_email |-> loanData.staffEmail,
   staff_name |-> loanData.staffName,
   borrowed_at |-> t,
   returned_at |-> NullTs,
   status |-> "active",
   created_at |-> t]

\* the row registerLoan inserts; returned_at and created_at take the column
\* defaults (NULL, NOW()); borrowedAt || new Date().toISOString()
registerLoanRow(loanData, t) ==
  [student_code |-> loanData.studentCode,
   student_name |-> loanData.studentName,
   category |-> loanData.category,
   item_type |-> loanData.itemType,
   item_description |-> loanData.itemDescription,
   staff_email |-> loanData.staffEmail,
   staff_name |-> loanData.staffName,
   borrowed_at |-> IF loanData.borrowedAt # NullTs THEN loanData.borrowedAt ELSE t,
   returned_at |-> NullTs,
   status |-> "active",
   created_at |-> t]

\* constraints of table loans on an insert: the foreign key to students and
\* the CHECK on category (item_type is NOT NULL, and '' is not NULL)
InsertLoanAccepted(row) ==
  /\ row.student_code \in DOMAIN students
  /\ row.category \in Categories

\* faulty variant: the update flips the status instead of setting it
returnLoanToggle(row, t) ==
  [row EXCEPT !.status = IF row.status = "active" THEN "returned" ELSE "active",
              !.returned_at = t]

\* faulty variant: the update sets the status and leaves returned_at alone
returnLoanNoStamp(row, t) == [row EXCEPT !.status = "returned"]

\* faulty variant: the update applies only to a loan that is still active
returnLoanOnlyActive(row, t) ==
  IF row.status = "active" THEN [row EXCEPT !.status = "returned", !.returned_at = t] ELSE row

\* the row after returnLoan's update({status:'returned', returned_at: now})
returnLoanUpdate(row, t) == [row EXCEPT !.status = "returned", !.returned_at = t]

\* faulty variant: a foreign key without ON DELETE CASCADE that is not enforced
LoansKept(c) == loans

\* DELETE FROM students WHERE code = c, with loans.student_code ON DELETE CASCADE
LoansAfterStudentDelete(c) ==
  [i \in {j \in LoanIds : loans[j].student_code # c} |-> loans[i]]

----------------------------------------------------------------------------
(* Sessions (js/auth.js) *)

\* 7 * 24 * 60 * 60 * 1000 ms, in ticks
SessionTtl == SESSION_DAYS * DayLen

\* faulty variant: a session is still returned at the instant it expires
getSessionInclusive(b) ==
  IF session[b].role # "none" /\ session[b].expiresAt # NullTs /\ session[b].expiresAt >= now
  THEN session[b] ELSE NoSession

\* getSession(): the stored session while expiresAt > Date.now(), else null
getSession(b) ==
  IF session[b].role # "none" /\ session[b].expiresAt # NullTs /\ session[b].expiresAt > now
  THEN session[b] ELSE NoSession

\* what getSession() leaves in storage: an expired session is removed
StorageAfterGetSession(b) == [session EXCEPT ![b] = getSession(b)]

\* setSession(sessionData): the data with expiresAt = Date.now() + 7 days
setSession(sessionData) == [sessionData EXCEPT !.expiresAt = now + SessionTtl]

\* faulty variant: the lookup matches on the code alone
LoginStudentMatchCodeOnly(code, password) == sanitize(code) \in DOMAIN students

\* AuthAPI.loginStudent(code, password): the row matching code and hash
LoginStudentMatch(code, password) ==
  /\ sanitize(code) \in DOMAIN students
  /\ students[sanitize(code)].password_hash = sha256(password)

\* faulty variant: the login never looks at the active flag
NeverInactive(row) == FALSE

\* data.active === false, the test of loginStudent on the matching row
IsInactive(row) == row.active = FALSE

\* AuthAPI.loginStaff(email, password): the rows matching email and hash
LoginStaffMatch(email, password) ==
  {i \in DOMAIN staff : /\ staff[i].email = sanitize(email)
                        /\ staff[i].password_hash = sha256(password)}

\* the student page as its script leaves it for a session of student `code`
\* reached with location hash `first`: without the row only the error modal
\* shows; else the password form when first_login, session.firstLogin or #first
StudentPageLoaded(code, sessionFirst, hashFirst) ==
  IF code \notin DOMAIN students
  THEN [kind |-> "student", code |-> "", section |-> "none"]
  ELSE [kind |-> "student", code |-> code,
        section |-> IF students[code].first_login \/ sessionFirst \/ hashFirst
                    THEN "firstLogin" ELSE "card"]

----------------------------------------------------------------------------
(* Calls in flight and the gateway's client (js/api.js) *)

\* no studentData
NoStudentData ==
  [code |-> "", cedula |-> "", name |-> "", lastname |-> "", expiry |-> "",
   hasActive |-> FALSE, active |-> FALSE]

\* no call of the browser is between its read and its write
NoCall ==
  [op |-> "none", target |-> "", id |-> "", name |-> "", password |-> "",
   changedBy |-> "", firstLogin |-> FALSE, history |-> NullHistory, at |-> NullTs,
   existing |-> FALSE, hash |-> <<>>, data |-> NoStudentData]

\* the scripts of a page that call API.init() or API.getClient()
InitCallers == {"DOMContentLoaded", "initialize", "getClient"}

\* what a caller holds: nothing, the promise numbered id, or the client
\* numbered id
NoHandle == [kind |-> "none", id |-> 0]

\* js/api.js once its script has run and before any call: supabaseClient and
\* initializationPromise are null (0); promises lists the promises made by
\* `new Promise` with the state, the attempts counter, the pending
\* setTimeout and the client resolved with of each; created counts the
\* clients createClient has returned
ApiFresh(library) ==
  [library |-> library, supabaseClient |-> 0, initializationPromise |-> 0,
   promises |-> <<>>, created |-> 0, got |-> [k \in InitCallers |-> NoHandle]]

\* js/api.js on a page whose scripts are working: the library was there at
\* the first tryInit and the client was created
ApiLoaded ==
  [library |-> TRUE, supabaseClient |-> 1, initializationPromise |-> 1,
   promises |-> <<[state |-> "resolved", attempts |-> 1, timer |-> FALSE, value |-> 1]>>,
   created |-> 1, got |-> [k \in InitCallers |-> NoHandle]]

\* faulty variant: initSupabase without the test of initializationPromise
NeverReusesPromise(a) == FALSE

\* if (initializationPromise) return initializationPromise
ReusesPromise(a) == a.initializationPromise # 0

\* one run of tryInit for promise p: attempts++; without the library the
\* promise is rejected at the last attempt and a timer is set otherwise;
\* with it createClient gives the client, or throws and the promise is rejected
TryInit(a, p, throws) ==
  LET n == a.promises[p].attempts + 1
  IN IF ~a.library
     THEN IF n >= maxAttempts
          THEN [a EXCEPT !.promises[p] =
                  [state |-> "rejected", attempts |-> n, timer |-> FALSE, value |-> 0]]
          ELSE [a EXCEPT !.promises[p] =
                  [state |-> "pending", attempts |-> n, timer |-> TRUE, value |-> 0]]
     ELSE IF throws
     THEN [a EXCEPT !.promises[p] =
             [state |-> "rejected", attempts |-> n, timer |-> FALSE, value |-> 0]]
     ELSE [a EXCEPT !.supabaseClient = a.created + 1,
                    !.created = a.created + 1,
                    !.promises[p] = [state |-> "resolved", attempts |-> n,
                                     timer |-> FALSE, value |-> a.created + 1]]

\* initSupabase() called by k (API.init(), or API.getClient() while there is
\* no client): the client when there is one, the promise under way when
\* there is one, else a new promise whose executor runs tryInit at once
InitSupabaseResult(a, k, throws) ==
  IF a.supabaseClient # 0
  THEN [a EXCEPT !.got[k] = [kind |-> "client", id |-> a.supabaseClient]]
  ELSE IF ReusesPromise(a)
  THEN [a EXCEPT !.got[k] = [kind |-> "promise", id |-> a.initializationPromise]]
  ELSE LET p == Len(a.promises) + 1
       IN TryInit([a EXCEPT !.promises = Append(@, [state |-> "pending", attempts |-> 0,
                                                     timer |-> FALSE, value |-> 0]),
                            !.initializationPromise = p,
                            !.got[k] = [kind |-> "promise", id |-> p]],
                  p, throws)

----------------------------------------------------------------------------
(* Initial state: the database holds the seeded staff member and one seeded   *)
(* student; no browser holds a session.                                       *)

InitWith(studentHistory, staffHistory) ==
  /\ students = [c \in {"1001"} |-> SeedStudent("52001001", "ANA", studentHistory)]
  /\ staff = [i \in {SeedStaffEmail} |-> SeedStaff(staffHistory)]
  /\ loans = <<>>
  /\ nextLoanId = 1
  /\ now = 0
  /\ session = [b \in Browsers |-> NoSession]
  /\ page = [b \in Browsers |-> LoginPage]
  /\ view = [b \in Browsers |-> {}]
  /\ pwdLog = [p \in Codes \cup {SeedStaffEmail} |-> <<>>]
  /\ loginAt = [b \in Browsers |-> NullTs]
  /\ calls = [b \in Browsers |-> NoCall]
  /\ api = ApiLoaded
  /\ lastOp = [op |-> "init", ok |-> TRUE, error |-> "", arg |-> ""]

Init == InitWith(DefaultHistory, DefaultHistory)

----------------------------------------------------------------------------
(* The gateway's client (js/api.js) *)

\* a script of the page calls API.init() or API.getClient()
InitSupabase(k, throws) ==
  /\ api.got[k] = NoHandle
  /\ api' = InitSupabaseResult(api, k, throws)
  /\ lastOp' = [op |-> "initSupabase", ok |-> TRUE, error |-> "", arg |-> k]
  /\ UNCHANGED <<students, staff, loans, nextLoanId, now, session, page, view, pwdLog, loginAt, calls>>

\* setTimeout(tryInit, 100) of promise p fires
TryInitTimer(p, throws) ==
  /\ p \in 1..Len(api.promises)
  /\ api.promises[p].timer
  /\ api' = TryInit(api, p, throws)
  /\ lastOp' = [op |-> "tryInit", ok |-> TRUE, error |-> "", arg |-> ""]
  /\ UNCHANGED <<students, staff, loans, nextLoanId, now, session, page, view, pwdLog, loginAt, calls>>

\* the script of the Supabase library has loaded: window.supabase is defined
LibraryLoads ==
  /\ ~api.library
  /\ api' = [api EXCEPT !.library = TRUE]
  /\ lastOp' = [op |-> "libraryLoads", ok |-> TRUE, error |-> "", arg |-> ""]
  /\ UNCHANGED <<students, staff, loans, nextLoanId, now, session, page, view, pwdLog, loginAt, calls>>

----------------------------------------------------------------------------
(* The clock *)

Tick(limit) ==
  /\ now < limit
  /\ now' = now + 1
  /\ lastOp' = [op |-> "tick", ok |-> TRUE, error |-> "", arg |-> ""]
  /\ UNCHANGED <<students, staff, loans, nextLoanId, session, page, view, pwdLog, loginAt, calls, api>>

----------------------------------------------------------------------------
(* Login page (js/login.js submit handler, js/auth.js, AuthAPI) *)

LoginStudentSubmit(b, code, password) ==
  /\ page[b].kind = "login"
  /\ IF ~LoginStudentMatch(code, password)
     THEN /\ lastOp' = [op |-> "loginStudent", ok |-> FALSE,
                        error |-> "Credenciales invalidas", arg |-> code]
          /\ UNCHANGED <<session, page, loginAt>>
     ELSE IF IsInactive(students[sanitize(code)])
     THEN /\ lastOp' = [op |-> "loginStudent", ok |-> FALSE,
                        error |-> "Carnet Inactivo", arg |-> ""]
          /\ UNCHANGED <<session, page, loginAt>>
     ELSE LET row == students[sanitize(code)]
              c == sanitize(code)
          IN /\ session' = [session EXCEPT ![b] = setSession(
                               [role |-> "student", code |-> c, email |-> "",
                                name |-> row.name, firstLogin |-> row.first_login,
                                ts |-> now, expiresAt |-> NullTs])]
             /\ page' = [page EXCEPT ![b] =
                               StudentPageLoaded(c, row.first_login, row.first_login)]
             /\ loginAt' = [loginAt EXCEPT ![b] = now]
             /\ lastOp' = [op |-> "loginStudent", ok |-> TRUE, error |-> "", arg |-> ""]
  /\ UNCHANGED <<students, staff, loans, nextLoanId, now, view, pwdLog, calls, api>>

LoginStaffSubmit(b, email, password) ==
  /\ page[b].kind = "login"
  /\ IF Cardinality(LoginStaffMatch(email, password)) # 1
     THEN /\ lastOp' = [op |-> "loginStaff", ok |-> FALSE,
                        error |-> "Credenciales invalidas", arg |-> email]
          /\ UNCHANGED <<session, page, view, loginAt>>
     ELSE LET row == staff[CHOOSE i \in LoginStaffMatch(email, password) : TRUE]
          IN /\ session' = [session EXCEPT ![b] = setSession(
                               [role |-> "staff", code |-> row.id, email |-> row.email,
                                name |-> row.name, firstLogin |-> FALSE,
                                ts |-> now, expiresAt |-> NullTs])]
             /\ page' = [page EXCEPT ![b] = StaffPage]
             /\ view' = [view EXCEPT ![b] = {}]
             /\ loginAt' = [loginAt EXCEPT ![b] = now]
             /\ lastOp' = [op |-> "loginStaff", ok |-> TRUE, error |-> "", arg |-> ""]
  /\ UNCHANGED <<students, staff, loans, nextLoanId, now, pwdLog, calls, api>>

\* logoutBtn click on the staff or the student page: clearSession(), back to login
Logout(b) ==
  /\ page[b].kind # "login"
  /\ session' = [session EXCEPT ![b] = NoSession]
  /\ page' = [page EXCEPT ![b] = LoginPage]
  /\ view' = [view EXCEPT ![b] = {}]
  /\ loginAt' = [loginAt EXCEPT ![b] = NullTs]
  /\ lastOp' = [op |-> "logout", ok |-> TRUE, error |-> "", arg |-> ""]
  /\ UNCHANGED <<students, staff, loans, nextLoanId, now, pwdLog, calls, api>>

\* Auth.logout() from a tab of the browser that still shows a page with the
\* logout button: clearSession(), whatever is stored, and back to login
AuthLogout(b) ==
  /\ session' = [session EXCEPT ![b] = NoSession]
  /\ page' = [page EXCEPT ![b] = LoginPage]
  /\ view' = [view EXCEPT ![b] = {}]
  /\ loginAt' = [loginAt EXCEPT ![b] = NullTs]
  /\ lastOp' = [op |-> "logout", ok |-> TRUE, error |-> "", arg |-> ""]
  /\ UNCHANGED <<students, staff, loans, nextLoanId, now, pwdLog, calls, api>>

\* index.html opened: the login page reads no session
OpenLoginPage(b) ==
  /\ page[b].kind # "login"
  /\ page' = [page EXCEPT ![b] = LoginPage]
  /\ view' = [view EXCEPT ![b] = {}]
  /\ lastOp' = [op |-> "openLogin", ok |-> TRUE, error |-> "", arg |-> ""]
  /\ UNCHANGED <<students, staff, loans, nextLoanId, now, session, pwdLog, loginAt, calls, api>>

\* staff.html (re)loaded: initialize() checks the session and redirects to the
\* login page without a staff session
LoadStaffPage(b) ==
  /\ session' = StorageAfterGetSession(b)
  /\ page' = [page EXCEPT ![b] = IF getSession(b).role = "staff" THEN StaffPage ELSE LoginPage]
  /\ view' = [view EXCEPT ![b] = {}]
  /\ lastOp' = [op |-> "loadPage", ok |-> getSession(b).role = "staff", error |-> "",
                arg |-> "staff"]
  /\ UNCHANGED <<students, staff, loans, nextLoanId, now, pwdLog, loginAt, calls, api>>

\* student.html (re)loaded, with or without #first: the script checks the
\* session, redirects to the login page without a student session, and else
\* loads the student's row and shows the password form or the card
LoadStudentPage(b, hashFirst) ==
  /\ session' = StorageAfterGetSession(b)
  /\ page' = [page EXCEPT ![b] =
                 IF getSession(b).role = "student"
                 THEN StudentPageLoaded(getSession(b).code, getSession(b).firstLogin, hashFirst)
                 ELSE LoginPage]
  /\ view' = [view EXCEPT ![b] = {}]
  /\ lastOp' = [op |-> "loadPage", ok |-> getSession(b).role = "student", error |-> "",
                arg |-> "student"]
  /\ UNCHANGED <<students, staff, loans, nextLoanId, now, pwdLog, loginAt, calls, api>>

----------------------------------------------------------------------------
(* Card status on the staff page (staff.js) *)

\* An expiry text is described by its format and the calendar day it names,
\* days being counted on the model's clock: "es" is '15 ENERO 2025', "iso" is
\* '2025-01-15', "bad" is a text that names no date ('15 enero 2025',
\* 'pronto'), "empty" is ''.  "nan" is a text with a month of the table whose
\* day or year is no number ('?? ENERO 2025', '15 ENERO'): parseInt gives NaN
\* and new Date an Invalid Date.
ExpiryText(kind, day) == [kind |-> kind, day |-> day]

\* Utils.formatDateToSpanish(dateString): a text with a space is returned as
\* it is, '' gives '', an ISO date is rewritten day, month name, year
formatDateToSpanish(dateString) ==
  IF dateString.kind = "iso" THEN ExpiryText("es", dateString.day) ELSE dateString

\* faulty variant: a part that is no number counts as 0, and a text that
\* names no date gives the first day of the clock
ExpiryDateZeroOnFailure(expiry) ==
  [valid |-> TRUE, time |-> IF expiry.kind \in {"es", "iso"} THEN expiry.day * DayLen ELSE 0]

\* the Date that isExpired and isExpiringSoon build from the text: the
\* Spanish form through the month table, any other text through
\* new Date(expiry + 'T00:00:00'); valid is false when no Date or an Invalid
\* Date results, and every comparison with it is then false
ExpiryDate(expiry) ==
  [valid |-> expiry.kind \in {"es", "iso"}, time |-> expiry.day * DayLen]

\* today.setHours(0, 0, 0, 0): the start of the day of instant t
StartOfDay(t) == (t \div DayLen) * DayLen

\* Math.ceil(a / b) for b > 0
MathCeilDiv(a, b) == 0 - ((0 - a) \div b)

\* faulty variant: expired from the day of expiry on
isExpiredInclusive(expiry, t) ==
  /\ expiry.kind # "empty"
  /\ ExpiryDate(expiry).valid
  /\ ExpiryDate(expiry).time <= StartOfDay(t)

\* isExpired(expiry) evaluated at instant t
isExpired(expiry, t) ==
  /\ expiry.kind # "empty"
  /\ ExpiryDate(expiry).valid
  /\ ExpiryDate(expiry).time < StartOfDay(t)

\* faulty variant: the days are counted from the start of today and rounded down
isExpiringSoonFloor(expiry, t) ==
  /\ expiry.kind # "empty"
  /\ ExpiryDate(expiry).valid
  /\ LET daysUntilExpiry == (ExpiryDate(expiry).time - StartOfDay(t)) \div DayLen
     IN daysUntilExpiry >= 0 /\ daysUntilExpiry < EXPIRING_DAYS

\* isExpiringSoon(expiry) evaluated at instant t
isExpiringSoon(expiry, t) ==
  /\ expiry.kind # "empty"
  /\ ExpiryDate(expiry).valid
  /\ LET daysUntilExpiry == MathCeilDiv(ExpiryDate(expiry).time - t, DayLen)
     IN daysUntilExpiry >= 0 /\ daysUntilExpiry <= EXPIRING_DAYS

\* faulty variant: the dates are looked at before the active flag
statusBadgeDatesFirst(s, t) ==
  IF isExpired(s.expiry, t) THEN "EXPIRADO"
  ELSE IF isExpiringSoon(s.expiry, t) THEN "POR VENCER"
  ELSE IF s.active = FALSE THEN "INACTIVO"
  ELSE "ACTIVO"

\* statusBadge of renderStudentList for row s at instant t
statusBadge(s, t) ==
  IF s.active = FALSE THEN "INACTIVO"
  ELSE IF isExpired(s.expiry, t) THEN "EXPIRADO"
  ELSE IF isExpiringSoon(s.expiry, t) THEN "POR VENCER"
  ELSE "ACTIVO"

\* loadDashboardStats(): statActiveCards,
\* students.filter(s => s.active !== false && !isExpired(s.expiry)).length
DashboardActiveCards(t) ==
  Cardinality({c \in DOMAIN students :
                 students[c].active # FALSE /\ ~isExpired(students[c].expiry, t)})

\* loadDashboardStats(): statExpiring,
\* students.filter(s => isExpiringSoon(s.expiry)).length
DashboardExpiring(t) ==
  Cardinality({c \in DOMAIN students : isExpiringSoon(students[c].expiry, t)})

\* loadDashboardStats(): the two counts are computed from one listAll() and shown
LoadDashboardStats(b) ==
  /\ page[b].kind = "staff"
  /\ lastOp' = [op |-> "loadDashboardStats", ok |-> TRUE, error |-> "", arg |-> ""]
  /\ UNCHANGED <<students, staff, loans, nextLoanId, now, session, page, view, pwdLog, loginAt, calls, api>>

\* renderStudentList(): the badge shown for student c
RenderStudentList(b, c) ==
  /\ page[b].kind = "staff"
  /\ c \in DOMAIN students
  /\ lastOp' = [op |-> "renderStudentList", ok |-> TRUE, error |-> "",
                arg |-> statusBadge(students[c], now)]
  /\ UNCHANGED <<students, staff, loans, nextLoanId, now, session, page, view, pwdLog, loginAt, calls, api>>

\* encodeStudentData(data): the payload of the card's barcode, `UPAC-${data.code}`
encodeStudentData(data) == "UPAC-" \o data.code

\* faulty variant: the prefix is cut with substring(4), which keeps its dash
ScannedStudentCodeKeepDash(code) ==
  IF Len(code) >= 5 /\ SubSeq(code, 1, 5) = "UPAC-" THEN SubSeq(code, 5, Len(code)) ELSE code

\* code.startsWith('UPAC-') ? code.substring(5) : code
ScannedStudentCode(code) ==
  IF Len(code) >= 5 /\ SubSeq(code, 1, 5) = "UPAC-" THEN SubSeq(code, 6, Len(code)) ELSE code

\* faulty variant: an inactive card is announced like an active one
validateCodeTitleIgnoreFlag(code, t) ==
  IF sanitize(ScannedStudentCode(code)) \notin DOMAIN students THEN "Carnet Invalido"
  ELSE "Carnet Valido"

\* the title of the modal validateCode(code) shows at instant t
validateCodeTitle(code, t) ==
  IF sanitize(ScannedStudentCode(code)) \notin DOMAIN students THEN "Carnet Invalido"
  ELSE IF students[sanitize(ScannedStudentCode(code))].active # FALSE THEN "Carnet Valido"
  ELSE "Carnet Inactivo"

\* onScanSuccess(decodedText): validateCode(decodedText)
ValidateCode(b, code) ==
  /\ page[b].kind = "staff"
  /\ lastOp' = [op |-> "validateCode", ok |-> validateCodeTitle(code, now) = "Carnet Valido",
                error |-> validateCodeTitle(code, now),
                arg |-> sanitize(ScannedStudentCode(code))]
  /\ UNCHANGED <<students, staff, loans, nextLoanId, now, session, page, view, pwdLog, loginAt, calls, api>>

----------------------------------------------------------------------------
(* Students (StudentsAPI in js/api.js) *)

\* faulty variant: the insert keeps the active flag of the caller
NewStudentRowCallerActive(studentData, t) ==
  [cedula |-> sanitize(studentData.cedula),
   name |-> sanitize(studentData.name),
   lastname |-> sanitize(studentData.lastname),
   expiry |-> sanitize(studentData.expiry),
   active |-> IF studentData.hasActive THEN studentData.active ELSE TRUE,
   first_login |-> TRUE,
   password_hash |-> sha256(IF studentData.cedula # "" THEN studentData.cedula
                            ELSE studentData.code),
   password_history |-> DefaultHistory,
   created_at |-> t,
   updated_at |-> t]

\* faulty variant: the default password is taken from the sanitized columns
NewStudentRowHashStored(studentData, t) ==
  [cedula |-> sanitize(studentData.cedula),
   name |-> sanitize(studentData.name),
   lastname |-> sanitize(studentData.lastname),
   expiry |-> sanitize(studentData.expiry),
   active |-> TRUE,
   first_login |-> TRUE,
   password_hash |-> sha256(IF sanitize(studentData.cedula) # ""
                            THEN sanitize(studentData.cedula)
                            ELSE sanitize(studentData.code)),
   password_history |-> DefaultHistory,
   created_at |-> t,
   updated_at |-> t]

\* the row createOrUpdate writes for studentData when no row with the code
\* exists: default password sha256(cedula || code), first_login and active
\* forced to true, password_history left to its column default
NewStudentRow(studentData, t) ==
  [cedula |-> sanitize(studentData.cedula),
   name |-> sanitize(studentData.name),
   lastname |-> sanitize(studentData.lastname),
   expiry |-> sanitize(studentData.expiry),
   active |-> TRUE,
   first_login |-> TRUE,
   password_hash |-> sha256(IF studentData.cedula # "" THEN studentData.cedula
                            ELSE studentData.code),
   password_history |-> DefaultHistory,
   created_at |-> t,
   updated_at |-> t]

\* the row after createOrUpdate's update of an existing row: the profile
\* columns, active (true when the caller gave none) and updated_at
UpdatedStudentRow(row, studentData, t) ==
  [row EXCEPT !.cedula = sanitize(studentData.cedula),
              !.name = sanitize(studentData.name),
              !.lastname = sanitize(studentData.lastname),
              !.expiry = sanitize(studentData.expiry),
              !.password_hash = row.password_hash,
              !.active = IF studentData.hasActive THEN studentData.active ELSE TRUE,
              !.updated_at = t]

\* StudentsAPI.createOrUpdate(studentData), studentData.code not empty
CreateOrUpdate(studentData) ==
  LET code == sanitize(studentData.code)
  IN /\ students' = IF code \in DOMAIN students
                    THEN [students EXCEPT ![code] = UpdatedStudentRow(@, studentData, now)]
                    ELSE [c \in DOMAIN students \cup {code} |->
                            IF c = code THEN NewStudentRow(studentData, now)
                            ELSE students[c]]
     /\ lastOp' = [op |-> "createOrUpdate", ok |-> TRUE, error |-> "", arg |-> ""]
     /\ UNCHANGED <<staff, loans, nextLoanId, now, session, page, view, pwdLog, loginAt, calls, api>>

\* createOrUpdate(studentData) up to the answer of the existence query:
\* Date.now() is taken and the row's code, password_hash and first_login are
\* read; with no row the default password is hashed
CreateOrUpdateRead(b, studentData) ==
  LET code == sanitize(studentData.code)
  IN /\ calls[b] = NoCall
     /\ calls' = [calls EXCEPT ![b] =
                     [NoCall EXCEPT !.op = "createOrUpdate", !.target = code,
                                    !.at = now,
                                    !.existing = code \in DOMAIN students,
                                    !.hash = IF code \in DOMAIN students
                                             THEN students[code].password_hash ELSE <<>>,
                                    !.data = studentData]]
     /\ lastOp' = [op |-> "createOrUpdateRead", ok |-> TRUE, error |-> "", arg |-> ""]
     /\ UNCHANGED <<students, staff, loans, nextLoanId, now, session, page, view, pwdLog, loginAt, api>>

\* createOrUpdate from the update or the insert on: with a row found, the
\* update of the row with the code, if it is still there, writes the profile,
\* active, updated_at and the password_hash that was read; with no row found,
\* the insert, which the primary key refuses when the code is there by now
CreateOrUpdateWrite(b) ==
  LET call == calls[b]
      code == call.target
      shown == IF call.data.active THEN "active: true" ELSE "active: false"
  IN /\ call.op = "createOrUpdate"
     /\ calls' = [calls EXCEPT ![b] = NoCall]
     /\ IF call.existing
        THEN /\ students' =
                   IF code \in DOMAIN students
                   THEN [students EXCEPT ![code] =
                           UpdatedStudentRow([students[code] EXCEPT !.password_hash = call.hash],
                                             call.data, call.at)]
                   ELSE students
             /\ lastOp' = [op |-> "createOrUpdate", ok |-> TRUE, error |-> "",
                           arg |-> <<"update", shown>>]
        ELSE IF code \in DOMAIN students
        THEN /\ lastOp' = [op |-> "createOrUpdate", ok |-> FALSE, error |-> "duplicate key",
                           arg |-> <<"insert", shown>>]
             /\ UNCHANGED students
        ELSE /\ students' = [c \in DOMAIN students \cup {code} |->
                               IF c = code THEN NewStudentRow(call.data, call.at)
                               ELSE students[c]]
             /\ lastOp' = [op |-> "createOrUpdate", ok |-> TRUE, error |-> "",
                           arg |-> <<"insert", shown>>]
     /\ UNCHANGED <<staff, loans, nextLoanId, now, session, page, view, pwdLog, loginAt, api>>

\* StudentsAPI.delete(code): deletes the row, if any, and with it its loans
StudentsDelete(rawCode) ==
  LET code == sanitize(rawCode)
  IN /\ students' = [c \in DOMAIN students \ {code} |-> students[c]]
     /\ loans' = LoansAfterStudentDelete(code)
     /\ pwdLog' = [pwdLog EXCEPT ![code] = <<>>]
     /\ lastOp' = [op |-> "deleteStudent", ok |-> TRUE, error |-> "", arg |-> ""]
     /\ UNCHANGED <<staff, nextLoanId, now, session, page, view, loginAt, calls, api>>

----------------------------------------------------------------------------
(* Staff (StaffAPI in js/api.js, handleStaffRegister and deleteStaff in staff.js) *)

\* text.includes(part): part occurs somewhere in text
Includes(text, part) ==
  \E i \in 1..(Len(text) - Len(part) + 1) : SubSeq(text, i, i + Len(part) - 1) = part

\* the test create makes of staffData.email before anything else
InstitutionalEmail(email) ==
  Includes(email, "@udp.edu") \/ Includes(email, "@unipacifico.edu.co")

\* staffData.id || staffData.email
StaffIdOf(staffData) == IF staffData.id # "" THEN staffData.id ELSE staffData.email

\* .or(`email.eq.${email},id.eq.${id || email}`).single(): the row when exactly
\* one row matches; with no row or several, data is null
StaffExisting(staffData) ==
  LET found == {i \in DOMAIN staff : \/ staff[i].email = staffData.email
                                     \/ i = StaffIdOf(staffData)}
  IN Cardinality(found) = 1

\* the row create inserts; password_history takes its column default
NewStaffRow(call, t) ==
  [id |-> call.id, name |-> sanitize(call.name), email |-> sanitize(call.target),
   password_hash |-> sha256(call.password), password_history |-> DefaultHistory,
   created_at |-> t, updated_at |-> t]

\* faulty variant: a staff table whose email column is not UNIQUE
InsertStaffAcceptedKeyOnly(row) == row.id \notin DOMAIN staff

\* constraints of table staff on an insert: id PRIMARY KEY, email UNIQUE
InsertStaffAccepted(row) ==
  /\ row.id \notin DOMAIN staff
  /\ \A i \in DOMAIN staff : staff[i].email # row.email

\* StaffAPI.create(staffData) up to the answer of the existence query: the
\* email test and the query may each end the call with an error
StaffCreateCheck(b, staffData) ==
  /\ calls[b] = NoCall
  /\ IF ~InstitutionalEmail(staffData.email)
     THEN /\ lastOp' = [op |-> "createStaff", ok |-> FALSE,
                        error |-> "Email debe ser institucional", arg |-> staffData.email]
          /\ UNCHANGED calls
     ELSE IF StaffExisting(staffData)
     THEN /\ lastOp' = [op |-> "createStaff", ok |-> FALSE,
                        error |-> "El funcionario ya existe", arg |-> staffData.email]
          /\ UNCHANGED calls
     ELSE /\ calls' = [calls EXCEPT ![b] =
                          [NoCall EXCEPT !.op = "createStaff", !.target = staffData.email,
                                         !.id = StaffIdOf(staffData),
                                         !.name = staffData.name,
                                         !.password = staffData.password]]
          /\ lastOp' = [op |-> "createStaffCheck", ok |-> TRUE, error |-> "",
                        arg |-> staffData.email]
  /\ UNCHANGED <<students, staff, loans, nextLoanId, now, session, page, view, pwdLog, loginAt, api>>

\* StaffAPI.create from the hash on: the insert, which the table's
\* constraints may refuse
StaffCreateInsert(b) ==
  /\ calls[b].op = "createStaff"
  /\ calls' = [calls EXCEPT ![b] = NoCall]
  /\ LET row == NewStaffRow(calls[b], now)
     IN IF ~InsertStaffAccepted(row)
        THEN /\ lastOp' = [op |-> "createStaff", ok |-> FALSE,
                           error |-> "duplicate key", arg |-> calls[b].target]
             /\ UNCHANGED staff
        ELSE /\ staff' = [i \in DOMAIN staff \cup {row.id} |->
                             IF i = row.id THEN row ELSE staff[i]]
             /\ lastOp' = [op |-> "createStaff", ok |-> TRUE, error |-> "",
                           arg |-> calls[b].target]
  /\ UNCHANGED <<students, loans, nextLoanId, now, session, page, view, pwdLog, loginAt, api>>

\* StaffAPI.delete(email): deletes the rows whose email is the cleaned text
StaffDelete(email) ==
  /\ staff' = [i \in {j \in DOMAIN staff : staff[j].email # sanitize(email)} |-> staff[i]]
  /\ lastOp' = [op |-> "deleteStaff", ok |-> TRUE, error |-> "", arg |-> email]
  /\ UNCHANGED <<students, loans, nextLoanId, now, session, page, view, pwdLog, loginAt, calls, api>>

----------------------------------------------------------------------------
(* Loans panel of the staff page (js/staffLoans.js, js/loans.js) *)

\* new Date(`${loanDate}T${loanTime}`).toISOString() when both fields are
\* filled, else null: day loanDate, tick loanTime of that day
FormBorrowedAt(loanDate, loanTime) ==
  IF loanDate # NoInput /\ loanTime # NoInput THEN loanDate * DayLen + loanTime ELSE NullTs

\* faulty variant: the item is read from the library select whatever the category
FormItemTypeLibrary(form) == form.libraryItem

\* itemType = category === 'biblioteca' ? libraryItem : labItem
FormItemType(form) == IF form.category = "biblioteca" THEN form.libraryItem ELSE form.labItem

\* faulty variant: the item check runs before the student lookup
SubmitRefusalItemFirst(b, form) ==
  IF form.libraryItem = "" /\ form.category = "biblioteca" THEN "Falta informacion"
  ELSE IF form.labItem = "" /\ form.category = "laboratorio" THEN "Falta informacion"
  ELSE IF ~validateStudent(form.studentCode) THEN "Estudiante no encontrado"
  ELSE IF getSession(b).role # "staff" THEN "No se pudo obtener informacion del funcionario"
  ELSE ""

\* the checks of handleLoanSubmit, in their order, before registerLoan is
\* called: "" when they all pass
SubmitRefusal(b, form) ==
  IF ~validateStudent(form.studentCode) THEN "Estudiante no encontrado"
  ELSE IF FormItemType(form) = "" THEN "Falta informacion"
  ELSE IF getSession(b).role # "staff" THEN "No se pudo obtener informacion del funcionario"
  ELSE ""

\* loanData as handleLoanSubmit prepares it
FormLoanData(b, form) ==
  [studentCode |-> form.studentCode,
   studentName |-> <<students[form.studentCode].name, students[form.studentCode].lastname>>,
   category |-> form.category,
   itemType |-> FormItemType(form),
   itemDescription |-> "null",
   staffEmail |-> getSession(b).email,
   staffName |-> getSession(b).name,
   borrowedAt |-> FormBorrowedAt(form.loanDate, form.loanTime)]

\* loadActiveLoans(''): the ids of the loans rendered with a return button
RenderedActiveLoans == Ids(getActiveLoans)

\* searchActiveLoanInput / opening the loans section: loadActiveLoans()
LoadActiveLoans(b) ==
  /\ page[b].kind = "staff"
  /\ view' = [view EXCEPT ![b] = RenderedActiveLoans]
  /\ lastOp' = [op |-> "loadActiveLoans", ok |-> TRUE, error |-> "", arg |-> ""]
  /\ UNCHANGED <<students, staff, loans, nextLoanId, now, session, page, pwdLog, loginAt, calls, api>>

\* loanForm submit: handleLoanSubmit, with registerLoan and the reloads
HandleLoanSubmit(b, form) ==
  /\ page[b].kind = "staff"
  /\ nextLoanId <= MaxLoans
  /\ LET refusal == SubmitRefusal(b, form)
         sessionRead == refusal \notin {"Estudiante no encontrado", "Falta informacion"}
     IN /\ session' = IF sessionRead THEN StorageAfterGetSession(b) ELSE session
        /\ IF refusal # ""
           THEN /\ lastOp' = [op |-> "registerLoan", ok |-> FALSE, error |-> refusal, arg |-> form.category]
                /\ UNCHANGED <<loans, nextLoanId, view>>
           ELSE LET row == registerLoanRow(FormLoanData(b, form), now)
                IN IF ~InsertLoanAccepted(row)
                   THEN /\ lastOp' = [op |-> "registerLoan", ok |-> FALSE,
                                      error |-> "gateway", arg |-> form.category]
                        /\ UNCHANGED <<loans, nextLoanId, view>>
                   ELSE /\ loans' = [i \in LoanIds \cup {nextLoanId} |->
                                       IF i = nextLoanId THEN row ELSE loans[i]]
                        /\ nextLoanId' = nextLoanId + 1
                        /\ view' = [view EXCEPT ![b] = RenderedActiveLoans']
                        /\ lastOp' = [op |-> "registerLoan", ok |-> TRUE, error |-> "", arg |-> form.category]
  /\ UNCHANGED <<students, staff, now, page, pwdLog, loginAt, calls, api>>

\* "Marcar como devuelto" on a rendered loan: handleReturnLoan(loanId), with
\* the confirm dialog, returnLoan and the reloads
HandleReturnLoan(b, loanId, confirmed) ==
  /\ page[b].kind = "staff"
  /\ loanId \in view[b]
  /\ IF ~confirmed
     THEN /\ lastOp' = [op |-> "returnLoan", ok |-> FALSE, error |-> "cancelled", arg |-> ""]
          /\ UNCHANGED <<loans, view>>
     ELSE IF loanId \notin LoanIds
     THEN /\ lastOp' = [op |-> "returnLoan", ok |-> FALSE, error |-> "gateway", arg |-> ""]
          /\ UNCHANGED <<loans, view>>
     ELSE /\ loans' = [loans EXCEPT ![loanId] = returnLoanUpdate(@, now)]
          /\ view' = [view EXCEPT ![b] = RenderedActiveLoans']
          /\ lastOp' = [op |-> "returnLoan", ok |-> TRUE, error |-> "",
                        arg |-> loans[loanId].status]
  /\ UNCHANGED <<students, staff, nextLoanId, now, session, page, pwdLog, loginAt, calls, api>>

----------------------------------------------------------------------------
(* Student page (student.js, js/card.js) *)

\* nav item "card": the card section replaces the password form
NavCard(b) ==
  /\ page[b].kind = "student"
  /\ page' = [page EXCEPT ![b].section = "card"]
  /\ lastOp' = [op |-> "navCard", ok |-> TRUE, error |-> "", arg |-> ""]
  /\ UNCHANGED <<students, staff, loans, nextLoanId, now, session, view, pwdLog, loginAt, calls, api>>

\* what a download handler does once the card nodes are found: with
\* html2canvas and jsPDF loaded it renders both faces and saves the PDF
PdfProduced(librariesLoaded) == librariesLoaded

\* nav item "download": downloadPdfDirectly(), then the card section is shown
DownloadPdfDirectly(b, librariesLoaded) ==
  /\ page[b].kind = "student"
  /\ page' = [page EXCEPT ![b].section = "card"]
  /\ lastOp' = [op |-> "download", ok |-> PdfProduced(librariesLoaded),
                error |-> IF PdfProduced(librariesLoaded) THEN "" ELSE "libraries", arg |-> ""]
  /\ UNCHANGED <<students, staff, loans, nextLoanId, now, session, view, pwdLog, loginAt, calls, api>>

\* click on #downloadPdfBtn of the card section (listener attached by
\* generateCard, so only once the student's row was loaded)
DownloadPdfButton(b, librariesLoaded) ==
  /\ page[b].kind = "student"
  /\ page[b].code # ""
  /\ page[b].section = "card"
  /\ lastOp' = [op |-> "download", ok |-> PdfProduced(librariesLoaded),
                error |-> IF PdfProduced(librariesLoaded) THEN "" ELSE "libraries", arg |-> ""]
  /\ UNCHANGED <<students, staff, loans, nextLoanId, now, session, page, view, pwdLog, loginAt, calls, api>>

----------------------------------------------------------------------------
(* Password changes (AuthAPI.changeStudentPassword, StudentsAPI.resetPassword, *)
(* StaffAPI.resetPassword)                                                     *)

\* number of password changes written so far
PwdWrites ==
  LET RECURSIVE Sum(_)
      Sum(ps) == IF ps = {} THEN 0
                 ELSE LET p == CHOOSE q \in ps : TRUE IN Len(pwdLog[p]) + Sum(ps \ {p})
  IN Sum(DOMAIN pwdLog)

\* faulty variant: the write leaves first_login as it was
StudentPwdUpdateKeepFlag(row, newPassword, firstLogin, changedBy, t) ==
  [row EXCEPT !.password_hash = sha256(newPassword),
              !.password_history =
                  JSONstringify(PushHistory(row.password_history,
                                            [changedAt |-> t, changedBy |-> changedBy])),
              !.updated_at = t]

\* the students row after a password write
StudentPwdUpdate(row, newPassword, firstLogin, changedBy, t) ==
  [row EXCEPT !.password_hash = sha256(newPassword),
              !.first_login = firstLogin,
              !.password_history =
                  JSONstringify(PushHistory(row.password_history,
                                            [changedAt |-> t, changedBy |-> changedBy])),
              !.updated_at = t]

\* the staff row after a password write
StaffPwdUpdate(row, newPassword, changedBy, t) ==
  [row EXCEPT !.password_hash = sha256(newPassword),
              !.password_history =
                  JSONstringify(PushHistory(row.password_history,
                                            [changedAt |-> t, changedBy |-> changedBy])),
              !.updated_at = t]

\* common course of the two student operations
StudentPasswordWrite(op, rawCode, newPassword, firstLogin, changedBy) ==
  LET code == sanitize(rawCode)
  IN /\ PwdWrites < MaxPwdCalls
     /\ IF code \notin DOMAIN students
        THEN /\ lastOp' = [op |-> op, ok |-> FALSE,
                           error |-> "Estudiante no encontrado", arg |-> ""]
             /\ UNCHANGED <<students, pwdLog>>
        ELSE IF ParseThrows(students[code].password_history)
        THEN /\ lastOp' = [op |-> op, ok |-> FALSE,
                           error |-> "SyntaxError", arg |-> ""]
             /\ UNCHANGED <<students, pwdLog>>
        ELSE /\ students' = [students EXCEPT ![code] =
                               StudentPwdUpdate(@, newPassword, firstLogin, changedBy, now)]
             /\ pwdLog' = [pwdLog EXCEPT ![code] =
                               Append(@, [changedAt |-> now, changedBy |-> changedBy])]
             /\ lastOp' = [op |-> op, ok |-> TRUE, error |-> "", arg |-> ""]
     /\ UNCHANGED <<staff, loans, nextLoanId, now, session, page, view, loginAt, calls, api>>

\* number of the student's own changes among the changes written
SelfChanges(code) ==
  Cardinality({k \in 1..Len(pwdLog[code]) : pwdLog[code][k].changedBy = "self"})

\* AuthAPI.changeStudentPassword(code, newPassword)
ChangeStudentPassword(rawCode, newPassword) ==
  /\ SelfChanges(sanitize(rawCode)) < MaxSelfChanges
  /\ StudentPasswordWrite("changeStudentPassword", rawCode, newPassword, FALSE, "self")

\* StudentsAPI.resetPassword(code, newPassword, changedBy)
ResetStudentPassword(rawCode, newPassword, changedBy) ==
  /\ changedBy # "self"
  /\ StudentPasswordWrite("resetPassword", rawCode, newPassword, TRUE, changedBy)

\* StaffAPI.resetPassword(email, newPassword, changedBy)
ResetStaffPassword(email, newPassword, changedBy) ==
  LET found == {i \in DOMAIN staff : staff[i].email = sanitize(email)}
  IN /\ PwdWrites < MaxPwdCalls
     /\ IF Cardinality(found) # 1
        THEN /\ lastOp' = [op |-> "resetStaffPassword", ok |-> FALSE,
                           error |-> "Funcionario no encontrado", arg |-> ""]
             /\ UNCHANGED <<staff, pwdLog>>
        ELSE LET i == CHOOSE j \in found : TRUE
             IN IF ParseThrows(staff[i].password_history)
                THEN /\ lastOp' = [op |-> "resetStaffPassword", ok |-> FALSE, error |-> "SyntaxError", arg |-> ""]
                     /\ UNCHANGED <<staff, pwdLog>>
                ELSE /\ staff' = [staff EXCEPT ![i] =
                                     StaffPwdUpdate(@, newPassword, changedBy, now)]
                     /\ pwdLog' = [pwdLog EXCEPT ![i] =
                                     Append(@, [changedAt |-> now, changedBy |-> changedBy])]
                     /\ lastOp' = [op |-> "resetStaffPassword", ok |-> TRUE, error |-> "", arg |-> ""]
     /\ UNCHANGED <<students, loans, nextLoanId, now, session, page, view, loginAt, calls, api>>

\* faulty variant: the write appends to the history the row holds when the
\* update is served
WrittenHistoryBaseCurrent(call, row) == row.password_history

\* the history a password write builds on: existing.password_history, the
\* value the call's own select returned
WrittenHistoryBase(call, row) == call.history

\* changeStudentPassword / resetPassword up to the answer of the select:
\* Date.now() is taken, the row's password_history is read and parsed
StudentPasswordRead(b, op, rawCode, newPassword, firstLogin, changedBy) ==
  LET code == sanitize(rawCode)
  IN /\ calls[b] = NoCall
     /\ IF code \notin DOMAIN students
        THEN /\ lastOp' = [op |-> op, ok |-> FALSE,
                           error |-> "Estudiante no encontrado", arg |-> ""]
             /\ UNCHANGED calls
        ELSE IF ParseThrows(students[code].password_history)
        THEN /\ lastOp' = [op |-> op, ok |-> FALSE, error |-> "SyntaxError", arg |-> ""]
             /\ UNCHANGED calls
        ELSE /\ calls' = [calls EXCEPT ![b] =
                             [NoCall EXCEPT !.op = op, !.target = code,
                                            !.password = newPassword,
                                            !.changedBy = changedBy,
                                            !.firstLogin = firstLogin,
                                            !.history = students[code].password_history,
                                            !.at = now]]
             /\ lastOp' = [op |-> "passwordRead", ok |-> TRUE, error |-> "", arg |-> op]
     /\ UNCHANGED <<students, staff, loans, nextLoanId, now, session, page, view, pwdLog, loginAt, api>>

\* changeStudentPassword / resetPassword from the update on: the row with the
\* code, if it is still there, takes the hash, the flag and the history the
\* call has built; the call returns true
StudentPasswordUpdate(b) ==
  LET call == calls[b]
      code == call.target
  IN /\ call.op \in {"changeStudentPassword", "resetPassword"}
     /\ calls' = [calls EXCEPT ![b] = NoCall]
     /\ IF code \in DOMAIN students
        THEN /\ students' = [students EXCEPT ![code] =
                    StudentPwdUpdate([students[code] EXCEPT !.password_history =
                                         WrittenHistoryBase(call, students[code])],
                                     call.password, call.firstLogin, call.changedBy, call.at)]
             /\ pwdLog' = [pwdLog EXCEPT ![code] =
                               Append(@, [changedAt |-> call.at, changedBy |-> call.changedBy])]
        ELSE UNCHANGED <<students, pwdLog>>
     /\ lastOp' = [op |-> call.op, ok |-> TRUE, error |-> "", arg |-> ""]
     /\ UNCHANGED <<staff, loans, nextLoanId, now, session, page, view, loginAt, api>>

----------------------------------------------------------------------------
(* Specifications *)

\* the loan form as filled in: a library loan, one with a date and a time, one
\* with a date only, a laboratory loan, and the two forms with no item for
\* the chosen category
FormsOf(studentCode) ==
  { [category |-> "biblioteca", studentCode |-> studentCode, libraryItem |-> "Libros",
     labItem |-> "", loanDate |-> NoInput, loanTime |-> NoInput],
    [category |-> "biblioteca", studentCode |-> studentCode, libraryItem |-> "Libros",
     labItem |-> "", loanDate |-> 0, loanTime |-> 1],
    [category |-> "biblioteca", studentCode |-> studentCode, libraryItem |-> "Libros",
     labItem |-> "", loanDate |-> 0, loanTime |-> NoInput],
    [category |-> "laboratorio", studentCode |-> studentCode, libraryItem |-> "",
     labItem |-> "Multimetro", loanDate |-> NoInput, loanTime |-> NoInput],
    [category |-> "biblioteca", studentCode |-> studentCode, libraryItem |-> "",
     labItem |-> "Multimetro", loanDate |-> NoInput, loanTime |-> NoInput],
    [category |-> "laboratorio", studentCode |-> studentCode, libraryItem |-> "Libros",
     labItem |-> "", loanDate |-> NoInput, loanTime |-> NoInput] }

LoanForms == UNION {FormsOf(c) : c \in Codes}

StudentInputs ==
  [code : {"1002"}, cedula : {"52001002"}, name : {"LUIS"}, lastname : {SeedLastname},
   expiry : {SeedExpiry}, hasActive : {TRUE}, active : {TRUE}]

\* the loan ledger: staff log in, register and return loans; students are
\* created, edited and deleted
Next ==
  \/ Tick(MaxTime)
  \/ \E b \in StaffBrowsers : LoginStaffSubmit(b, SeedStaffEmail, "pw1")
  \/ \E d \in StudentInputs : CreateOrUpdate(d)
  \/ \E c \in RawCodes : StudentsDelete(c)
  \/ \E b \in StaffBrowsers : LoadActiveLoans(b)
  \/ \E b \in StaffBrowsers, f \in LoanForms : HandleLoanSubmit(b, f)
  \/ \E b \in StaffBrowsers, i \in 1..MaxLoans, ok \in BOOLEAN : HandleReturnLoan(b, i, ok)

Spec == Init /\ [][Next]_vars

\* the student page: a student logs in and downloads the card while a staff
\* member registers and returns loans of that student
CardForms ==
  { [category |-> "biblioteca", studentCode |-> "1001", libraryItem |-> "Libros",
     labItem |-> "", loanDate |-> NoInput, loanTime |-> NoInput] }

NextCard ==
  \/ Tick(MaxTime)
  \/ LoginStaffSubmit("b1", SeedStaffEmail, "pw1")
  \/ \E b \in StudentBrowsers, c \in Codes, p \in {"52001001", "pw1"} :
        LoginStudentSubmit(b, c, p)
  \/ \E b \in StudentBrowsers : Logout(b)
  \/ \E f \in CardForms : HandleLoanSubmit("b1", f)
  \/ \E i \in 1..MaxLoans : HandleReturnLoan("b1", i, TRUE)
  \/ \E b \in StudentBrowsers : NavCard(b)
  \/ \E b \in StudentBrowsers, l \in BOOLEAN : DownloadPdfDirectly(b, l)
  \/ \E b \in StudentBrowsers, l \in BOOLEAN : DownloadPdfButton(b, l)

SpecCard == Init /\ [][NextCard]_vars

\* the credential service: sequences of password changes on the seeded
\* student and the seeded staff member
InitCred ==
  \E hs \in {NullHistory, DefaultHistory}, hf \in {NullHistory, DefaultHistory} :
     InitWith(hs, hf)

NextCred ==
  \/ Tick(MaxCredTime)
  \/ \E c \in RawCodes : ChangeStudentPassword(c, "pw2")
  \/ \E c \in RawCodes : ResetStudentPassword(c, "pw1", SeedStaffEmail)
  \/ ResetStaffPassword(SeedStaffEmail, "pw2", SeedStaffEmail)

SpecCred == InitCred /\ [][NextCred]_vars

\* student accounts: staff create, edit and delete students and reset their
\* passwords; students and staff log in and out; students change their password
AccountInputs ==
  [code : {"1002"}, cedula : {"52001002", "<52001002>", ""}, name : {"LUIS"},
   lastname : {SeedLastname}, expiry : {SeedExpiry}, hasActive : {TRUE}, active : BOOLEAN]

LoginCodes == RawCodes \cup {"9999"}
LoginPasswords == {"52001001", "52001002", "<52001002>", "1002", "pw1", "pw2"}
LoginEmails == {SeedStaffEmail, "eve@udp.edu"}

NextAccount ==
  \/ \E d \in AccountInputs : CreateOrUpdate(d)
  \/ \E c \in RawCodes : StudentsDelete(c)
  \/ \E c \in LoginCodes, p \in LoginPasswords : LoginStudentSubmit("b3", c, p)
  \/ \E e \in LoginEmails, p \in Passwords : LoginStaffSubmit("b1", e, p)
  \/ \E b \in {"b1", "b3"} : Logout(b)
  \/ \E c \in RawCodes : PwdWrites < MaxAccountWrites /\ ChangeStudentPassword(c, "pw2")
  \/ \E c \in RawCodes :
        PwdWrites < MaxAccountWrites /\ ResetStudentPassword(c, "pw1", SeedStaffEmail)

SpecAccount == InitCred /\ [][NextAccount]_vars

\* sessions: one browser logs in as staff or as the seeded student, reloads
\* pages and logs out while the clock runs past the life of a session
SessionHorizon == SessionTtl + MaxSessionSlack

NextSession ==
  \/ Tick(SessionHorizon)
  \/ LoginStaffSubmit("b1", SeedStaffEmail, "pw1")
  \/ LoginStudentSubmit("b1", "1001", "52001001")
  \/ OpenLoginPage("b1")
  \/ LoadStaffPage("b1")
  \/ \E h \in BOOLEAN : LoadStudentPage("b1", h)
  \/ AuthLogout("b1")

SpecSession == Init /\ [][NextSession]_vars

\* card status: the seeded student has any expiry text and either value of
\* the active flag; a staff member lists the students and scans cards at
\* different times of the day and on different days
ExpiryDays == (0 - 1)..MaxExpiryDay

ExpiryTexts ==
  {formatDateToSpanish(ExpiryText("iso", d)) : d \in ExpiryDays}
    \cup {ExpiryText("iso", d) : d \in ExpiryDays}
    \cup {ExpiryText("bad", 0), ExpiryText("nan", 0), ExpiryText("empty", 0)}

ScanCodes == {"1001", "UPAC-1001", "<1001>", "9999"}

InitStatus ==
  /\ \E e \in ExpiryTexts, a \in BOOLEAN :
        students = [c \in {"1001"} |->
                      [SeedStudent("52001001", "ANA", DefaultHistory)
                         EXCEPT !.expiry = e, !.active = a]]
  /\ staff = [i \in {SeedStaffEmail} |-> SeedStaff(DefaultHistory)]
  /\ loans = <<>>
  /\ nextLoanId = 1
  /\ now = 0
  /\ session = [b \in Browsers |-> NoSession]
  /\ page = [b \in Browsers |-> LoginPage]
  /\ view = [b \in Browsers |-> {}]
  /\ pwdLog = [p \in Codes \cup {SeedStaffEmail} |-> <<>>]
  /\ loginAt = [b \in Browsers |-> NullTs]
  /\ calls = [b \in Browsers |-> NoCall]
  /\ api = ApiLoaded
  /\ lastOp = [op |-> "init", ok |-> TRUE, error |-> "", arg |-> ""]

NextStatus ==
  \/ Tick(MaxStatusTime)
  \/ LoginStaffSubmit("b1", SeedStaffEmail, "pw1")
  \/ RenderStudentList("b1", "1001")
  \/ LoadDashboardStats("b1")
  \/ \E c \in ScanCodes : ValidateCode("b1", c)

SpecStatus == InitStatus /\ [][NextStatus]_vars

\* the scanner: staff create, edit and delete the second student and scan the
\* payloads of cards, bare codes and other texts
ScanStudentInputs ==
  [code : {"1002"}, cedula : {"52001002"}, name : {"LUIS"}, lastname : {SeedLastname},
   expiry : {SeedExpiry}, hasActive : {TRUE}, active : BOOLEAN]

ScanTexts ==
  Codes \cup {encodeStudentData([code |-> c]) : c \in Codes}
        \cup {"9999", "UPAC-9999", "UPAC-", "upac-1001", "UPAC-UPAC-1001",
              "<1001>", "<UPAC-1001>"}

NextScan ==
  \/ Tick(MaxTime)
  \/ LoginStaffSubmit("b1", SeedStaffEmail, "pw1")
  \/ \E d \in ScanStudentInputs : CreateOrUpdate(d)
  \/ StudentsDelete("1002")
  \/ \E s \in ScanTexts : ValidateCode("b1", s)

SpecScan == Init /\ [][NextScan]_vars

\* returns: two staff members register loans of the seeded student and mark
\* them as returned, each from the list their own page shows
NextReturn ==
  \/ Tick(MaxTime)
  \/ \E b \in StaffBrowsers : LoginStaffSubmit(b, SeedStaffEmail, "pw1")
  \/ \E b \in StaffBrowsers : LoadActiveLoans(b)
  \/ \E b \in StaffBrowsers, f \in CardForms : HandleLoanSubmit(b, f)
  \/ \E b \in StaffBrowsers, i \in 1..MaxLoans, ok \in BOOLEAN : HandleReturnLoan(b, i, ok)

SpecReturn == Init /\ [][NextReturn]_vars

\* overlapping password changes: the seeded student, whose password staff
\* have reset several times, changes it while a staff member resets it
PriorChanges == [k \in 1..MaxPriorChanges |-> [changedAt |-> 0, changedBy |-> SeedStaffEmail]]

InitRace ==
  /\ students = [c \in {"1001"} |->
                   [SeedStudent("52001001", "ANA", JSONstringify(SliceLast(PriorChanges, HISTORY_LIMIT)))
                      EXCEPT !.password_hash = sha256("pw1")]]
  /\ staff = [i \in {SeedStaffEmail} |-> SeedStaff(DefaultHistory)]
  /\ loans = <<>>
  /\ nextLoanId = 1
  /\ now = 0
  /\ session = [b \in Browsers |-> NoSession]
  /\ page = [b \in Browsers |-> LoginPage]
  /\ view = [b \in Browsers |-> {}]
  /\ pwdLog = [p \in Codes \cup {SeedStaffEmail} |-> IF p = "1001" THEN PriorChanges ELSE <<>>]
  /\ loginAt = [b \in Browsers |-> NullTs]
  /\ calls = [b \in Browsers |-> NoCall]
  /\ api = ApiLoaded
  /\ lastOp = [op |-> "init", ok |-> TRUE, error |-> "", arg |-> ""]

\* the calls started and not yet refused
RaceCallsStarted ==
  Len(pwdLog["1001"]) + Cardinality({b \in Browsers : calls[b] # NoCall})

NextRace ==
  \/ Tick(MaxTime)
  \/ \E c \in {"1001", "1002"} :
        /\ RaceCallsStarted < MaxPriorChanges + MaxRaceWrites
        /\ StudentPasswordRead("b3", "changeStudentPassword", c, "pw2", FALSE, "self")
  \/ \E c \in {"1001", "<1001>"} :
        /\ RaceCallsStarted < MaxPriorChanges + MaxRaceWrites
        /\ StudentPasswordRead("b1", "resetPassword", c, "pw1", TRUE, SeedStaffEmail)
  \/ \E b \in {"b1", "b3"} : StudentPasswordUpdate(b)

SpecRace == InitRace /\ [][NextRace]_vars

\* edits: two staff members save the student form, for the seeded student
\* and for a second one, while the seeded student's password is changed and
\* reset and the second student is deleted
EditInputs ==
  [code : Codes, cedula : {"52001002"}, name : {"LUIS"}, lastname : {SeedLastname},
   expiry : {SeedExpiry}, hasActive : {TRUE}, active : BOOLEAN]

NextEdit ==
  \/ \E b \in StaffBrowsers, d \in EditInputs : CreateOrUpdateRead(b, d)
  \/ \E b \in StaffBrowsers : CreateOrUpdateWrite(b)
  \/ PwdWrites < MaxEditWrites /\ ChangeStudentPassword("1001", "pw2")
  \/ PwdWrites < MaxEditWrites /\ ResetStudentPassword("1001", "pw1", SeedStaffEmail)
  \/ StudentsDelete("1002")

SpecEdit == InitWith(NullHistory, DefaultHistory) /\ [][NextEdit]_vars

\* the client: the scripts of a page call init and getClient while the
\* library loads, early, late or never; timers that are set fire
InitApi ==
  /\ students = [c \in {"1001"} |-> SeedStudent("52001001", "ANA", DefaultHistory)]
  /\ staff = [i \in {SeedStaffEmail} |-> SeedStaff(DefaultHistory)]
  /\ loans = <<>>
  /\ nextLoanId = 1
  /\ now = 0
  /\ session = [b \in Browsers |-> NoSession]
  /\ page = [b \in Browsers |-> LoginPage]
  /\ view = [b \in Browsers |-> {}]
  /\ pwdLog = [p \in Codes \cup {SeedStaffEmail} |-> <<>>]
  /\ loginAt = [b \in Browsers |-> NullTs]
  /\ calls = [b \in Browsers |-> NoCall]
  /\ \E library \in BOOLEAN : api = ApiFresh(library)
  /\ lastOp = [op |-> "init", ok |-> TRUE, error |-> "", arg |-> ""]

TimerFires == \E p \in 1..Cardinality(InitCallers), throws \in BOOLEAN : TryInitTimer(p, throws)

NextApi ==
  \/ \E k \in InitCallers, throws \in BOOLEAN : InitSupabase(k, throws)
  \/ TimerFires
  \/ LibraryLoads

SpecApi == InitApi /\ [][NextApi]_vars /\ WF_vars(TimerFires)

\* staff accounts: two staff members register and delete staff at the same
\* time; the form gives no id, a direct call may
StaffEmails ==
  {SeedStaffEmail, "<ana@udp.edu>", "eva@unipacifico.edu.co", "eva@udp.edu.co",
   "eva@gmail.com"}

StaffInputs ==
  [name : {"Eva Staff"}, email : StaffEmails, password : {"pw2"}, id : {"", "s2"}]

NextStaff ==
  \/ \E b \in StaffBrowsers, d \in StaffInputs : StaffCreateCheck(b, d)
  \/ \E b \in StaffBrowsers : StaffCreateInsert(b)
  \/ \E e \in StaffEmails : StaffDelete(e)

SpecStaff == Init /\ [][NextStaff]_vars

----------------------------------------------------------------------------
(* Properties of the loan ledger (Spec) *)

\* the loans of student `code` that are active, read off the table
ActiveOf(code) ==
  {i \in LoanIds : loans[i].student_code = code /\ loans[i].status = "active"}

\* the form leaves the item of the chosen category empty
NoItemChosen(f) ==
  \/ f.category = "biblioteca" /\ f.libraryItem = ""
  \/ f.category = "laboratorio" /\ f.labItem = ""

\* C1: the only status transition is active -> returned: in every step a loan
\* that is new is active, a loan that was returned and is still in the table
\* is returned, and no loan has another status.
C1_StatusOnlyForward ==
  [][\A i \in DOMAIN loans' :
        /\ loans'[i].status \in {"active", "returned"}
        /\ (i \notin LoanIds => loans'[i].status = "active")
        /\ (i \in LoanIds /\ loans[i].status = "returned" => loans'[i].status = "returned")]_vars

\* a loan was returned and then returned again from a list that still showed it
C1_Witness ==
  \E i \in LoanIds : /\ loans[i].status = "returned"
                     /\ loans[i].returned_at > loans[i].created_at
                     /\ lastOp.op = "returnLoan" /\ lastOp.ok
                     /\ \E b \in StaffBrowsers : i \in view[b]

\* C2: a loan's status is returned exactly when its returned_at is set.
C2_ReturnedIffStamped ==
  \A i \in LoanIds : loans[i].status = "returned" <=> loans[i].returned_at # NullTs

\* the ledger holds a returned loan, stamped, beside an active one
C2_Witness ==
  \E i, j \in LoanIds : /\ loans[i].status = "returned" /\ loans[i].returned_at # NullTs
                        /\ loans[j].status = "active" /\ loans[j].returned_at = NullTs

\* C3: a loan is immutable once returned: no step changes a field of a
\* returned loan that stays in the table; in particular a further returnLoan
\* leaves returned_at at its first value.
C3_ReturnedImmutable ==
  [][\A i \in LoanIds :
        loans[i].status = "returned" /\ i \in DOMAIN loans' => loans'[i] = loans[i]]_vars

\* C5: getStudentActiveLoans(code) returns exactly the loans of that student
\* whose status is active, each once (stated after every step that changes
\* the table, which starts empty); a loan just registered is in the result
\* for its student; a loan just returned is no longer in it, and
\* getLoansHistory lists it as returned with returned_at set.
C5_StudentActiveLoans ==
  [][/\ loans' # loans =>
          \A c \in Codes :
             /\ Ids(getStudentActiveLoans(c))' = ActiveOf(c)'
             /\ Len(getStudentActiveLoans(c))' = Cardinality(ActiveOf(c))'
     /\ lastOp'.op = "registerLoan" /\ lastOp'.ok =>
          \E c \in Codes :
             /\ DOMAIN loans' = LoanIds \cup {nextLoanId}
             /\ loans'[nextLoanId].student_code = c
             /\ nextLoanId \notin Ids(getStudentActiveLoans(c))
             /\ Ids(getStudentActiveLoans(c))' =
                   Ids(getStudentActiveLoans(c)) \cup {nextLoanId}
             /\ Len(getStudentActiveLoans(c))' = Len(getStudentActiveLoans(c)) + 1
     /\ \A b \in StaffBrowsers, i \in 1..MaxLoans :
          lastOp'.op = "returnLoan" /\ lastOp'.ok /\ HandleReturnLoan(b, i, TRUE) =>
             /\ i \notin Ids(getStudentActiveLoans(loans[i].student_code))'
             /\ i \in Ids(getLoansHistory([NoFilters EXCEPT !.status = "returned"]))'
             /\ i \in Ids(getLoansHistory([NoFilters EXCEPT
                                              !.studentCode = loans[i].student_code]))'
             /\ loans'[i].status = "returned"
             /\ loans'[i].returned_at # NullTs]_vars

\* one loan of a student was just returned while another of the same student
\* is still active
C5_Witness ==
  /\ lastOp.op = "returnLoan" /\ lastOp.ok
  /\ \E i, j \in LoanIds : /\ loans[i].student_code = loans[j].student_code
                           /\ loans[i].status = "returned"
                           /\ getStudentActiveLoans(loans[i].student_code) = <<j>>

----------------------------------------------------------------------------
(* Property of the student page (SpecCard) *)

\* C4: a student with at least one active loan cannot download the card PDF:
\* whenever a download has just produced the PDF, the student of the page has
\* no active loan.
C4_DownloadBlocked ==
  lastOp.op = "download" /\ lastOp.ok =>
     \A b \in StudentBrowsers :
        page[b].kind = "student" => Len(getStudentActiveLoans(session[b].code)) = 0

----------------------------------------------------------------------------
(* Properties of registering a loan and of deleting a student (Spec) *)

\* C6: registering a loan for a student code with no students row fails with
\* the not-found error and creates no loan.
C6_UnknownStudentRefused ==
  [][\A b \in StaffBrowsers, f \in LoanForms :
        /\ lastOp'.op = "registerLoan"
        /\ f.studentCode \notin DOMAIN students
        /\ HandleLoanSubmit(b, f)
        => /\ ~lastOp'.ok
           /\ lastOp'.error = "Estudiante no encontrado"
           /\ loans' = loans
           /\ nextLoanId' = nextLoanId]_vars

\* a form for a student that is not in the table was refused, whether or not
\* loans of other students exist
C6_Witness ==
  /\ lastOp.op = "registerLoan" /\ ~lastOp.ok
  /\ lastOp.error = "Estudiante no encontrado"
  /\ "1002" \notin DOMAIN students
  /\ LoanIds # {}

\* C7: registering a loan with no item for the chosen category, library or
\* laboratory, creates no loan and fails; for a student that exists the
\* failure is the validation error.
C7_EmptyItemRefused ==
  [][\A b \in StaffBrowsers, f \in LoanForms :
        /\ lastOp'.op = "registerLoan"
        /\ NoItemChosen(f)
        /\ HandleLoanSubmit(b, f)
        => /\ ~lastOp'.ok
           /\ loans' = loans
           /\ nextLoanId' = nextLoanId
           /\ (f.studentCode \in DOMAIN students => lastOp'.error = "Falta informacion")]_vars

\* a laboratory form with no laboratory item was refused for want of the item
C7_Witness ==
  /\ lastOp.op = "registerLoan" /\ ~lastOp.ok
  /\ lastOp.error = "Falta informacion"
  /\ lastOp.arg = "laboratorio"

\* C8: a successful registration adds exactly one loan, active, with
\* returned_at null and borrowed_at the instant of the form's date and time
\* when both are given and the current time otherwise; every other loan is
\* unchanged.
C8_RegisterAddsOneLoan ==
  [][\A b \in StaffBrowsers, f \in LoanForms :
        /\ lastOp'.op = "registerLoan" /\ lastOp'.ok
        /\ HandleLoanSubmit(b, f)
        => /\ nextLoanId \notin LoanIds
           /\ DOMAIN loans' = LoanIds \cup {nextLoanId}
           /\ \A i \in LoanIds : loans'[i] = loans[i]
           /\ loans'[nextLoanId].status = "active"
           /\ loans'[nextLoanId].returned_at = NullTs
           /\ loans'[nextLoanId].student_code = f.studentCode
           /\ loans'[nextLoanId].category = f.category
           /\ loans'[nextLoanId].borrowed_at =
                 IF f.loanDate # NoInput /\ f.loanTime # NoInput
                 THEN f.loanDate * DayLen + f.loanTime ELSE now]_vars

\* a second loan was just registered; one of the two carries an instant taken
\* from the form, the other the time of its registration
C8_Witness ==
  /\ lastOp.op = "registerLoan" /\ lastOp.ok
  /\ \E i, j \in LoanIds : /\ loans[i].borrowed_at # loans[i].created_at
                           /\ loans[j].borrowed_at = loans[j].created_at
                           /\ loans[j].created_at = 1
                           /\ loans[i].status = "active" /\ loans[j].status = "active"

\* C9: deleting a student deletes the student's loans, so that a history
\* query by that code is empty, and leaves the loans of other students as
\* they were.
C9_DeleteCascades ==
  [][\A c \in RawCodes :
        lastOp'.op = "deleteStudent" /\ StudentsDelete(c)
        => /\ sanitize(c) \notin DOMAIN students'
           /\ Len(getLoansHistory([NoFilters EXCEPT !.studentCode = sanitize(c)]))' = 0
           /\ \A i \in LoanIds :
                 loans[i].student_code # sanitize(c) =>
                    i \in DOMAIN loans' /\ loans'[i] = loans[i]]_vars

\* a student was just deleted: of the two loans registered, the student's is
\* gone and the other student's remains
C9_Witness ==
  /\ lastOp.op = "deleteStudent"
  /\ nextLoanId = 3
  /\ Cardinality(LoanIds) = 1
  /\ \A i \in LoanIds : loans[i].student_code \in DOMAIN students

----------------------------------------------------------------------------
(* Property of the password history (SpecCred) *)

\* the entries stored in a password_history value
StoredEntries(row) == row.password_history.entries

\* `entries` are the last (at most HISTORY_LIMIT) elements of `log`, in order
IsRecentTail(entries, log) ==
  /\ Len(entries) = IF Len(log) > HISTORY_LIMIT THEN HISTORY_LIMIT ELSE Len(log)
  /\ \A k \in 1..Len(entries) : entries[k] = log[Len(log) - Len(entries) + k]

----------------------------------------------------------------------------
(* Properties of student accounts (SpecAccount) *)

\* the last element of a non-empty sequence
LastOf(seq) == seq[Len(seq)]

GivenDefaultPassword(d) == IF d.cedula # "" THEN d.cedula ELSE d.code

\* C12: when createOrUpdate creates a student, the stored hash is the hash of
\* the cedula given, or of the code given when no cedula is given, first_login
\* is true, and the row then accepts a login with that code and password: the
\* credentials match and the card is active.
C12_DefaultPassword ==
  [][\A d \in AccountInputs :
        /\ lastOp'.op = "createOrUpdate"
        /\ sanitize(d.code) \notin DOMAIN students
        /\ CreateOrUpdate(d)
        => /\ sanitize(d.code) \in DOMAIN students'
           /\ students'[sanitize(d.code)].password_hash = sha256(GivenDefaultPassword(d))
           /\ students'[sanitize(d.code)].first_login
           /\ students'[sanitize(d.code)].active
           /\ LoginStudentMatch(d.code, GivenDefaultPassword(d))']_vars

\* a student created without a cedula has logged in with the code as the
\* password, and the session carries firstLogin
C12_Witness ==
  /\ lastOp.op = "loginStudent" /\ lastOp.ok
  /\ "1002" \in DOMAIN students
  /\ students["1002"].cedula = ""
  /\ students["1002"].password_hash = sha256("1002")
  /\ session["b3"].code = "1002"
  /\ session["b3"].firstLogin

\* C13: a login of a student whose active flag is false, with the right code
\* and password, fails with the inactive-card error, which is not the
\* bad-credentials error, and stores no session.
C13_InactiveRefused ==
  [][\A c \in LoginCodes, p \in LoginPasswords :
        /\ lastOp'.op = "loginStudent"
        /\ LoginStudentMatch(c, p)
        /\ students[sanitize(c)].active = FALSE
        /\ LoginStudentSubmit("b3", c, p)
        => /\ ~lastOp'.ok
           /\ lastOp'.error = "Carnet Inactivo"
           /\ lastOp'.error # "Credenciales invalidas"
           /\ session' = session
           /\ getSession("b3")' = NoSession
           /\ page' = page]_vars

\* an inactive student was just refused with the right password: the hash
\* stored is that of the cedula, since no password change was written
C13_Witness ==
  /\ lastOp.op = "loginStudent" /\ ~lastOp.ok
  /\ lastOp.error = "Carnet Inactivo"
  /\ "1002" \in DOMAIN students
  /\ ~students["1002"].active
  /\ students["1001"].active
  /\ session["b3"] = NoSession

\* C14: a student or staff login with an identifier that is not registered
\* and one with a registered identifier and a wrong password fail with the
\* same message, and neither stores a session.
C14_LoginFailsClosed ==
  [][/\ \A c \in LoginCodes, p \in LoginPasswords :
          /\ lastOp'.op = "loginStudent"
          /\ \/ sanitize(c) \notin DOMAIN students
             \/ /\ sanitize(c) \in DOMAIN students
                /\ students[sanitize(c)].password_hash # sha256(p)
          /\ LoginStudentSubmit("b3", c, p)
          => /\ ~lastOp'.ok
             /\ lastOp'.error = "Credenciales invalidas"
             /\ session' = session
             /\ getSession("b3")' = NoSession
     /\ \A e \in LoginEmails, p \in Passwords :
          /\ lastOp'.op = "loginStaff"
          /\ \/ \A i \in DOMAIN staff : staff[i].email # sanitize(e)
             \/ \E i \in DOMAIN staff : /\ staff[i].email = sanitize(e)
                                        /\ staff[i].password_hash # sha256(p)
          /\ LoginStaffSubmit("b1", e, p)
          => /\ ~lastOp'.ok
             /\ lastOp'.error = "Credenciales invalidas"
             /\ session' = session
             /\ getSession("b1")' = NoSession]_vars

\* a login with the code of a registered, active student and a wrong password
\* was just refused as bad credentials
C14_Witness ==
  /\ lastOp.op = "loginStudent" /\ ~lastOp.ok
  /\ lastOp.error = "Credenciales invalidas"
  /\ sanitize(lastOp.arg) \in DOMAIN students
  /\ students[sanitize(lastOp.arg)].active
  /\ "1002" \notin DOMAIN students
  /\ session["b3"] = NoSession

----------------------------------------------------------------------------
(* Property of sessions (SpecSession) *)

\* C15: getSession returns a session exactly when a successful login stored
\* one at a time t0 with now < t0 + 7 days and no logout happened since; a
\* page load that finds the stored session expired removes it; a logout
\* leaves no session, whether or not one was stored.
C15_SessionLife ==
  [][/\ \A b \in Browsers :
          (getSession(b)' # NoSession) <=>
             (loginAt'[b] # NullTs /\ now' < loginAt'[b] + SESSION_DAYS * DayLen)
     /\ \A b \in Browsers :
          getSession(b)' # NoSession =>
             /\ getSession(b)'.ts = loginAt'[b]
             /\ getSession(b)'.expiresAt = loginAt'[b] + SESSION_DAYS * DayLen
     /\ \A b \in Browsers :
          /\ lastOp'.op = "loadPage"
          /\ session[b].role # "none" /\ session[b].expiresAt <= now
          /\ (LoadStaffPage(b) \/ \E h \in BOOLEAN : LoadStudentPage(b, h))
          => session'[b] = NoSession /\ page'[b] = LoginPage
     /\ \A b \in Browsers :
          lastOp'.op = "logout" /\ AuthLogout(b) =>
             session'[b] = NoSession /\ getSession(b)' = NoSession]_vars

\* a page load has removed a session that had outlived its 7 days
C15_Witness ==
  /\ lastOp.op = "loadPage" /\ ~lastOp.ok
  /\ loginAt["b1"] # NullTs
  /\ now >= loginAt["b1"] + SESSION_DAYS * DayLen
  /\ session["b1"] = NoSession
  /\ page["b1"] = LoginPage

----------------------------------------------------------------------------
(* Properties of the card status (SpecStatus) *)

\* the student whose card the status specification lists and scans
Listed == students["1001"]

\* whole days from the day of instant t to the day an expiry text names
DaysAhead(expiry, t) == expiry.day - (t \div DayLen)

\* C16: the student list gives every student exactly one of four states, with
\* priority INACTIVO > EXPIRADO > POR VENCER > ACTIVO: a student whose active
\* flag is false is INACTIVO whatever the expiry date, and the states derived
\* from the date are given only when the flag is not false.
C16_StatusPriority ==
  lastOp.op = "renderStudentList" =>
     /\ lastOp.arg \in {"INACTIVO", "EXPIRADO", "POR VENCER", "ACTIVO"}
     /\ (lastOp.arg = "INACTIVO") <=> (Listed.active = FALSE)
     /\ (lastOp.arg = "EXPIRADO") <=> (Listed.active /\ isExpired(Listed.expiry, now))
     /\ (lastOp.arg = "POR VENCER") <=>
           (Listed.active /\ ~isExpired(Listed.expiry, now)
                          /\ isExpiringSoon(Listed.expiry, now))
     /\ (lastOp.arg = "ACTIVO") <=>
           (Listed.active /\ ~isExpired(Listed.expiry, now)
                          /\ ~isExpiringSoon(Listed.expiry, now))

\* a student with the flag false and an expiry date in the past is listed as
\* INACTIVO
C16_Witness ==
  /\ lastOp.op = "renderStudentList"
  /\ lastOp.arg = "INACTIVO"
  /\ Listed.expiry.kind = "es"
  /\ DaysAhead(Listed.expiry, now) < 0

\* C17: isExpired is true exactly when the day the expiry text names is
\* strictly before today: an expiry of yesterday is expired and an expiry of
\* today is not, at every time of day; a text that names no date is not
\* expired.
C17_ExpiredIffBeforeToday ==
  /\ Listed.expiry.kind \in {"es", "iso"} =>
        (isExpired(Listed.expiry, now) <=> DaysAhead(Listed.expiry, now) < 0)
  /\ Listed.expiry.kind \in {"bad", "empty"} => ~isExpired(Listed.expiry, now)
  /\ lastOp.op = "renderStudentList" /\ Listed.active /\ Listed.expiry.kind \in {"es", "iso"} =>
        ((lastOp.arg = "EXPIRADO") <=> DaysAhead(Listed.expiry, now) < 0)

\* late in the day, a card that expired yesterday is listed as EXPIRADO
C17_Witness ==
  /\ lastOp.op = "renderStudentList"
  /\ lastOp.arg = "EXPIRADO"
  /\ DaysAhead(Listed.expiry, now) = 0 - 1
  /\ now % DayLen = DayLen - 1

\* C18: for an active student whose expiry day lies d whole days after
\* today, the card is POR VENCER exactly when 0 <= d <= 30 and ACTIVO exactly
\* when d > 30, at every time of day; isExpired and isExpiringSoon are never
\* both true of the same expiry at the same instant.
C18_ExpiringSoonWindow ==
  /\ Listed.expiry.kind \in {"es", "iso"} =>
        (isExpiringSoon(Listed.expiry, now) <=>
            (0 <= DaysAhead(Listed.expiry, now)
               /\ DaysAhead(Listed.expiry, now) <= EXPIRING_DAYS))
  /\ ~(isExpired(Listed.expiry, now) /\ isExpiringSoon(Listed.expiry, now))
  /\ lastOp.op = "renderStudentList" /\ Listed.active /\ Listed.expiry.kind \in {"es", "iso"} =>
        /\ (lastOp.arg = "POR VENCER") <=>
              (0 <= DaysAhead(Listed.expiry, now)
                 /\ DaysAhead(Listed.expiry, now) <= EXPIRING_DAYS)
        /\ (lastOp.arg = "ACTIVO") <=> (DaysAhead(Listed.expiry, now) > EXPIRING_DAYS)

\* late in the day, a card that expires in exactly 30 days is listed as POR
\* VENCER
C18_Witness ==
  /\ lastOp.op = "renderStudentList"
  /\ lastOp.arg = "POR VENCER"
  /\ DaysAhead(Listed.expiry, now) = EXPIRING_DAYS
  /\ now % DayLen = DayLen - 1

\* C19: the validator reports a scanned card as valid only when the code is
\* that of a registered student whose active flag is not false and whose
\* expiry date has not passed: an expired card is never reported as valid.
C19_ValidOnlyIfInForce ==
  lastOp.op = "validateCode" /\ lastOp.error = "Carnet Valido" =>
     /\ lastOp.arg \in DOMAIN students
     /\ students[lastOp.arg].active # FALSE
     /\ (students[lastOp.arg].expiry.kind \in {"es", "iso"} =>
            DaysAhead(students[lastOp.arg].expiry, now) >= 0)

----------------------------------------------------------------------------
(* Property of the first login (SpecCard) *)

\* C20: while the first_login flag of the student of a student page is true,
\* the page shows neither the card view nor a PDF just downloaded.
C20_FirstLoginForcesChange ==
  \A b \in StudentBrowsers :
     /\ page[b].kind = "student"
     /\ page[b].code \in DOMAIN students
     /\ students[page[b].code].first_login
     => /\ page[b].section # "card"
        /\ ~(lastOp.op = "download" /\ lastOp.ok)

----------------------------------------------------------------------------
(* Property of the card's payload (SpecScan) *)

\* the code part of a scanned text: the text after a leading 'UPAC-', or the
\* whole text when it has no such prefix
CodePart(s) ==
  IF Len(s) >= 5 /\ SubSeq(s, 1, 5) = "UPAC-" THEN SubSeq(s, 6, Len(s)) ELSE s

\* C21 as stated: the payload of a card is 'UPAC-' followed by the student
\* code; for every student code c, validating 'UPAC-' + c and validating c
\* alone both resolve to student c; a scanned text whose code part is no
\* student's code is reported as invalid.
C21_UnknownCodePartInvalid ==
  [][\A s \in ScanTexts :
        lastOp'.op = "validateCode" /\ ValidateCode("b1", s) =>
           /\ \A c \in DOMAIN students :
                 s \in {encodeStudentData([code |-> c]), "UPAC-" \o c, c} =>
                    lastOp'.arg = c /\ lastOp'.error # "Carnet Invalido"
           /\ CodePart(s) \notin DOMAIN students => lastOp'.error = "Carnet Invalido"]_vars

\* C21, amended: the payload of a card is 'UPAC-' followed by the student
\* code; for every student code c, validating 'UPAC-' + c and validating c
\* alone both resolve to student c; a scanned text whose code part, once the
\* characters < and > are removed from it, is no student's code is reported
\* as invalid.
C21_PayloadRoundTrip ==
  [][\A s \in ScanTexts :
        lastOp'.op = "validateCode" /\ ValidateCode("b1", s) =>
           /\ \A c \in DOMAIN students :
                 s \in {encodeStudentData([code |-> c]), "UPAC-" \o c, c} =>
                    lastOp'.arg = c /\ lastOp'.error # "Carnet Invalido"
           /\ sanitize(CodePart(s)) \notin DOMAIN students =>
                 lastOp'.error = "Carnet Invalido"]_vars

\* a scan has just resolved to the second student, created through the form
\* and set inactive
C21_Witness ==
  /\ lastOp.op = "validateCode"
  /\ lastOp.arg = "1002"
  /\ lastOp.error = "Carnet Inactivo"
  /\ "1002" \in DOMAIN students
  /\ students["1002"].active = FALSE

----------------------------------------------------------------------------
(* Properties of staff accounts (SpecStaff) *)

\* text.endsWith(part)
EndsWith(text, part) ==
  Len(text) >= Len(part) /\ SubSeq(text, Len(text) - Len(part) + 1, Len(text)) = part

\* C22: a create with an email or an id that already belongs to a staff
\* record fails with a conflict error, from the existence query or from the
\* insert, and leaves the staff table unchanged; in every state no two staff
\* records share an email.
C22_StaffEmailUnique ==
  [][/\ \A i, j \in DOMAIN staff' : staff'[i].email = staff'[j].email => i = j
     /\ \A b \in StaffBrowsers, d \in StaffInputs :
          /\ lastOp'.op = "createStaff"
          /\ StaffCreateCheck(b, d)
          => /\ ~lastOp'.ok
             /\ staff' = staff
             /\ lastOp'.error \in {"Email debe ser institucional", "El funcionario ya existe"}
     /\ \A b \in StaffBrowsers, d \in StaffInputs :
          /\ lastOp'.op \in {"createStaff", "createStaffCheck"}
          /\ InstitutionalEmail(d.email)
          /\ Cardinality({i \in DOMAIN staff :
                            staff[i].email = d.email \/ i = StaffIdOf(d)}) = 1
          /\ StaffCreateCheck(b, d)
          => /\ ~lastOp'.ok
             /\ lastOp'.error = "El funcionario ya existe"
             /\ staff' = staff
     /\ \A b \in StaffBrowsers :
          /\ lastOp'.op = "createStaff"
          /\ \/ calls[b].id \in DOMAIN staff
             \/ \E i \in DOMAIN staff : staff[i].email = sanitize(calls[b].target)
          /\ StaffCreateInsert(b)
          => /\ ~lastOp'.ok
             /\ lastOp'.error = "duplicate key"
             /\ staff' = staff]_vars

\* a create that passed the existence query was refused by the insert while
\* the table holds two records: another create, for the same email or for
\* another, was served in between, or the email was given between < and >
C22_Witness ==
  /\ lastOp.op = "createStaff" /\ ~lastOp.ok
  /\ lastOp.error = "duplicate key"
  /\ Cardinality(DOMAIN staff) = 2
  /\ \E i \in DOMAIN staff : staff[i].email = sanitize(lastOp.arg)

\* C23: every staff record that create stores has an email that ends with
\* one of the accepted institutional domains, @udp.edu or
\* @unipacifico.edu.co; a create with any other email fails and stores
\* nothing.
C23_InstitutionalSuffix ==
  [][/\ \A i \in DOMAIN staff' \ DOMAIN staff :
          EndsWith(staff'[i].email, "@udp.edu")
             \/ EndsWith(staff'[i].email, "@unipacifico.edu.co")
     /\ \A b \in StaffBrowsers, d \in StaffInputs :
          /\ lastOp'.op \in {"createStaff", "createStaffCheck"}
          /\ ~EndsWith(sanitize(d.email), "@udp.edu")
          /\ ~EndsWith(sanitize(d.email), "@unipacifico.edu.co")
          /\ StaffCreateCheck(b, d)
          => /\ lastOp'.op = "createStaff" /\ ~lastOp'.ok
             /\ staff' = staff /\ calls' = calls]_vars

----------------------------------------------------------------------------
(* Property of concurrent returns (SpecReturn) *)

\* C24: a caller whose list shows a loan as active can mark it as returned
\* whatever the status of the loan has become: the update carries no
\* condition on the status, so the call succeeds also on a loan another
\* caller has returned in the meantime, and the stored returned_at is the
\* time of this later write.
C24_LaterReturnWins ==
  [][\A b \in StaffBrowsers, i \in 1..MaxLoans :
        /\ lastOp'.op = "returnLoan"
        /\ i \in LoanIds
        /\ HandleReturnLoan(b, i, TRUE)
        => /\ lastOp'.ok
           /\ loans'[i].status = "returned"
           /\ loans'[i].returned_at = now
           /\ \A j \in LoanIds \ {i} : loans'[j] = loans[j]]_vars

\* two staff members had the only loan registered in their lists; one
\* returned it and the other has just returned it again, at time 1
C24_Witness ==
  /\ lastOp.op = "returnLoan" /\ lastOp.ok
  /\ lastOp.arg = "returned"
  /\ now = 1
  /\ nextLoanId = 2
  /\ \E i \in LoanIds : /\ loans[i].status = "returned"
                        /\ loans[i].returned_at = 1
                        /\ loans[i].created_at = 0

----------------------------------------------------------------------------
(* Property of overlapping password changes (SpecRace) *)

\* C25: a password change writes the history its own read returned plus its
\* own entry, whatever was written since that read: of two changes of the
\* same principal that overlap, both report success and the stored history
\* holds the entry of the later write only; the stored history never holds
\* more than 10 entries.
C25_HistoryReadModifyWrite ==
  [][/\ \A c \in DOMAIN students' : Len(StoredEntries(students'[c])) <= HISTORY_LIMIT
     /\ \A b \in {"b1", "b3"} :
          /\ lastOp'.op \in {"changeStudentPassword", "resetPassword"}
          /\ StudentPasswordUpdate(b)
          => /\ lastOp'.ok
             /\ StoredEntries(students'[calls[b].target]) =
                   SliceLast(Append(calls[b].history.entries,
                                    [changedAt |-> calls[b].at,
                                     changedBy |-> calls[b].changedBy]), HISTORY_LIMIT)
             /\ Len(pwdLog'[calls[b].target]) = Len(pwdLog[calls[b].target]) + 1]_vars

\* two overlapping changes have both reported success, the student's own and
\* then a reset by staff; the stored history holds the earlier entries and
\* the entry of the reset, and the entry of the student's own change is not
\* in it
C25_Witness ==
  /\ lastOp.op = "resetPassword" /\ lastOp.ok
  /\ Len(pwdLog["1001"]) = MaxPriorChanges + 2
  /\ pwdLog["1001"][MaxPriorChanges + 1].changedBy = "self"
  /\ Len(StoredEntries(students["1001"])) <= HISTORY_LIMIT
  /\ \A k \in 1..Len(StoredEntries(students["1001"])) :
        StoredEntries(students["1001"])[k].changedBy # "self"
  /\ LastOf(StoredEntries(students["1001"])) = LastOf(pwdLog["1001"])

----------------------------------------------------------------------------
(* Properties of the dashboard and of texts that name no date (SpecStatus) *)

\* the students the list shows with badge `badge` at instant t
WithBadge(badge, t) == {c \in DOMAIN students : statusBadge(students[c], t) = badge}

\* C26: the counts of the dashboard are the counts of students per state of
\* the list: 'active cards' is the number of students whose badge is ACTIVO
\* and 'expiring' the number whose badge is POR VENCER.
C26_CountsMatchBadges ==
  lastOp.op = "loadDashboardStats" =>
     /\ DashboardActiveCards(now) = Cardinality(WithBadge("ACTIVO", now))
     /\ DashboardExpiring(now) = Cardinality(WithBadge("POR VENCER", now))

\* C27: with an expiry text that is empty or names no date in either form
\* (a month that is not in the table, a day or a year that is no number, a
\* text without a space that is no ISO date), isExpired and isExpiringSoon
\* are both false at every instant, and the list shows an active student
\* with such a text as ACTIVO.
C27_UnparseableNeverExpires ==
  Listed.expiry.kind \in {"bad", "nan", "empty"} =>
     /\ ~isExpired(Listed.expiry, now)
     /\ ~isExpiringSoon(Listed.expiry, now)
     /\ lastOp.op = "renderStudentList" =>
           lastOp.arg = (IF Listed.active THEN "ACTIVO" ELSE "INACTIVO")

\* on a later day, an active student whose expiry text has a day that is no
\* number is listed as ACTIVO
C27_Witness ==
  /\ lastOp.op = "renderStudentList"
  /\ lastOp.arg = "ACTIVO"
  /\ Listed.active
  /\ Listed.expiry.kind = "nan"
  /\ now >= DayLen

----------------------------------------------------------------------------
(* Properties of saving the student form (SpecEdit) *)

\* C28: a createOrUpdate for a code that has no row stores the row with
\* active and first_login true whatever active flag the caller gave (or
\* nothing, when the code was taken while the call was under way); the
\* caller's active flag is stored only when the call updates a row that
\* exists.
C28_NewStudentActive ==
  [][\A b \in StaffBrowsers :
        lastOp'.op = "createOrUpdate" /\ CreateOrUpdateWrite(b) =>
           /\ ~calls[b].existing /\ lastOp'.ok =>
                 /\ calls[b].target \notin DOMAIN students
                 /\ calls[b].target \in DOMAIN students'
                 /\ students'[calls[b].target].active = TRUE
                 /\ students'[calls[b].target].first_login = TRUE
           /\ ~calls[b].existing /\ ~lastOp'.ok => students' = students
           /\ calls[b].existing /\ calls[b].target \in DOMAIN students =>
                 students'[calls[b].target].active = calls[b].data.active
           /\ \A c \in DOMAIN students' \ {calls[b].target} :
                 c \in DOMAIN students /\ students'[c] = students[c]]_vars

\* a form saved with the active box unchecked has just created the second
\* student, and the row is active
C28_Witness ==
  /\ lastOp.op = "createOrUpdate" /\ lastOp.ok
  /\ lastOp.arg = <<"insert", "active: false">>
  /\ "1002" \in DOMAIN students
  /\ students["1002"].active = TRUE
  /\ students["1002"].first_login = TRUE

\* C29: a createOrUpdate that updates a student leaves the student's
\* password_hash, first_login, password_history and created_at as they were
\* before the update, however edits and password changes follow one another.
C29_EditKeepsCredentials ==
  [][\A b \in StaffBrowsers :
        /\ lastOp'.op = "createOrUpdate"
        /\ calls[b].existing
        /\ calls[b].target \in DOMAIN students
        /\ CreateOrUpdateWrite(b)
        => /\ students'[calls[b].target].password_hash = students[calls[b].target].password_hash
           /\ students'[calls[b].target].first_login = students[calls[b].target].first_login
           /\ students'[calls[b].target].password_history =
                 students[calls[b].target].password_history
           /\ students'[calls[b].target].created_at = students[calls[b].target].created_at]_vars

----------------------------------------------------------------------------
(* Property of the client's initialization (SpecApi) *)

\* the promises that are still pending
PendingPromises == {p \in 1..Len(api.promises) : api.promises[p].state = "pending"}

\* what a caller ends up with: the client it was handed, or the client its
\* promise was resolved with (0 while the promise is pending or when it was
\* rejected)
ClientOf(k) ==
  IF api.got[k].kind = "client" THEN api.got[k].id
  ELSE IF api.got[k].kind = "promise" THEN api.promises[api.got[k].id].value
  ELSE 0

\* C30: however the calls of init and getClient overlap, createClient gives
\* a client at most once; the callers that come before the initialization
\* has completed are all handed the one promise, the callers that come after
\* it the one client, which is also what the promise was resolved with; a
\* promise makes at most 50 attempts, and once the initialization has begun
\* it settles, resolved or rejected.
C30_ClientCreatedOnce ==
  /\ [](/\ api.created <= 1
        /\ Len(api.promises) <= 1
        /\ \A k \in InitCallers :
              /\ api.got[k].kind = "promise" => api.got[k].id = api.initializationPromise
              /\ api.got[k].kind = "client" =>
                    api.got[k].id = api.supabaseClient /\ api.created = 1
              /\ ClientOf(k) # 0 => ClientOf(k) = api.supabaseClient
        /\ \A p \in 1..Len(api.promises) :
              /\ api.promises[p].attempts <= maxAttempts
              /\ api.promises[p].timer => api.promises[p].state = "pending"
              /\ api.promises[p].state = "resolved" <=> api.promises[p].value # 0)
  /\ (api.initializationPromise # 0) ~> (PendingPromises = {})

\* the library loaded while tryInit was polling: one caller holds the promise
\* made before, now resolved, another was handed the client, and a single
\* client was created
C30_Witness ==
  /\ api.created = 1
  /\ Len(api.promises) = 1
  /\ api.promises[1].attempts > 1
  /\ api.promises[1].state = "resolved"
  /\ \E k1, k2 \in InitCallers : /\ api.got[k1].kind = "promise"
                                  /\ api.got[k2].kind = "client"
                                  /\ ClientOf(k1) = ClientOf(k2)

====
